---- MODULE Spec2Model ----
(***************************************************************************)
(* A model of the hyperjson core: the packed SerializerState word          *)
(* (src/serialize/state.rs), the per-interpreter ParseBuffer pool          *)
(* (src/interpreter_state.rs) and the yyjson decode entry point            *)
(* (src/deserialize/backend/yyjson.rs).                                    *)
(*                                                                         *)
(* Each component has its own specification over the shared variables:     *)
(*   SpecState       - SerializerState::new / copy_for_* / limit checks    *)
(*   SpecDecode      - ParseBuffer::ensure_capacity / drop and deserialize *)
(*                     over every input length                             *)
(*   SpecMaterialize - deserialize over every document, with container     *)
(*                     allocations that may fail                           *)
(*   SpecKeyCache    - KeyCache::get_or_insert / drop and the handles      *)
(*   SpecIntern      - deserialize of documents with keys, the key cache   *)
(*                     carried from call to call                           *)
(*   SpecPopulate    - deserialize of every document, with the order of    *)
(*                     the reads, allocations and stores of each call      *)
(*   SpecOpts        - the flag word of SerializerState under the copies,  *)
(*                     read by pyobject_to_obtype                          *)
(*   SpecThreads     - get_current_state / get_or_init_state on threads    *)
(*   SpecClassify    - pyobject_to_obtype, call after call                 *)
(*   SpecTags        - pyobject_to_obtype under every flag word            *)
(***************************************************************************)
EXTENDS Integers, Naturals, Sequences, FiniteSets, TLC

VARIABLES
    \* ---- serialize/state.rs
    state,      \* SerializerState.state: the u32 word, as the set of its 1-bits
    nRec,       \* ghost: copy_for_recursive_call applications since new()
    nDef,       \* ghost: copy_for_default_call applications since new()
    opts0,      \* ghost: the flags new() was given
    \* ---- interpreter_state.rs / deserialize/backend/yyjson.rs
    build,      \* "debug" (overflow checks on) or "release" (wrapping)
    pool,       \* ParseBuffer: [ptr, capacity]; ptr 0 is null
    live,       \* addresses PyMem_Malloc has handed out and PyMem_Free not taken back
    dropped,    \* Drop for ParseBuffer has run
    aborted,    \* the process has aborted: an overflow panic, or a crash
    badFree,    \* ghost: PyMem_Free was called on an address that is not live
    everFailed, \* ghost: some ensure_capacity call failed to allocate
    last,       \* ghost: what the last operation did
    \* ---- deserialize/cache.rs / deserialize/pyobject.rs
    py_gil_disabled, \* the build has cfg(Py_GIL_DISABLED)
    key_map,    \* KeyCache.entries: slot -> [ptr, hash, len]; ptr 0 is null
    strs,       \* the host's string objects: address -> [bytes, rc]
    held,       \* the handles callers of get_unicode_key hold: address -> count
    cacheDropped, \* Drop for KeyCache has run
    badRef,     \* ghost: a reference was taken or dropped on a deallocated object
    seen,       \* ghost: key -> the string the first call with that key returned
    nGets,      \* ghost: the get_unicode_key calls made through GetUnicodeKey
    lastKey,    \* ghost: what the last key cache operation did
    firstVal,   \* ghost: document -> what the first decode call of it returned
    \* ---- interpreter_state.rs: the registry of contexts
    interpreter_states, \* INTERPRETER_STATES: module pointer -> the boxed context, 0 absent
    guard,      \* the thread holding the registry mutex, 0 when free
    cached,     \* thread -> [id, state]: CACHED_INTERP_ID and CACHED_STATE
    gil,        \* interpreter -> the thread holding its lock, 0 when free
    thr,        \* thread -> where it is in a call: [pc, interp, module, state, prev, locked]
    regLog,     \* ghost: contexts created and returned, mutex acquisitions, calls
    \* ---- serialize/obtype.rs
    tp_dict,    \* type object -> its dict holds the dataclass fields marker
    classLog    \* ghost: the last two pyobject_to_obtype calls

stateVars == <<state, nRec, nDef, opts0>>
poolVars == <<build, pool, live, dropped, aborted, badFree, everFailed, last>>
cacheVars == <<py_gil_disabled, key_map, strs, held, cacheDropped, badRef, seen, nGets,
              lastKey>>
internVars == <<firstVal>>
regVars == <<interpreter_states, guard, cached, gil, thr, regLog>>
classVars == <<tp_dict, classLog>>
vars == <<state, nRec, nDef, opts0,
          build, pool, live, dropped, aborted, badFree, everFailed, last,
          py_gil_disabled, key_map, strs, held, cacheDropped, badRef, seen, nGets, lastKey,
          firstVal, interpreter_states, guard, cached, gil, thr, regLog,
          tp_dict, classLog>>

(***************************************************************************)
(* u32 words as sets of bit positions (TLC integers stop at 2^31 - 1).     *)
(***************************************************************************)
U32Bits == 0..31

RECURSIVE Pow2(_)
Pow2(n) == IF n = 0 THEN 1 ELSE 2 * Pow2(n - 1)

\* the word whose value is the natural number n (n < 2^31)
RECURSIVE BitsFrom(_, _)
BitsFrom(n, pos) ==
    IF n = 0 THEN {}
    ELSE (IF n % 2 = 1 THEN {pos} ELSE {}) \cup BitsFrom(n \div 2, pos + 1)

Word(n) == BitsFrom(n, 0)

\* the value of a word that fits in 31 bits
RECURSIVE NatOf(_)
NatOf(w) ==
    IF w = {} THEN 0
    ELSE LET b == CHOOSE x \in w : TRUE IN Pow2(b) + NatOf(w \ {b})

BitAnd(a, b) == a \cap b
BitOr(a, b) == a \cup b
BitNot(a) == U32Bits \ a
\* u32 << n and u32 >> n for n < 32: bits shifted out are dropped
Shl(a, n) == {b + n : b \in a} \cap U32Bits
Shr(a, n) == {b - n : b \in {x \in a : x >= n}}
\* u32 + 1; the operand here is at most 255, so the sum cannot overflow
AddOne(a) ==
    LET k == CHOOSE x \in 0..32 : x \notin a /\ \A y \in 0..(x - 1) : y \in a
    IN  ({b \in a : b > k} \cup {k}) \cap U32Bits

(***************************************************************************)
(* serialize/state.rs                                                      *)
(***************************************************************************)
RECURSION_SHIFT == 24
RECURSION_MASK == Shl(Word(255), RECURSION_SHIFT)
DEFAULT_SHIFT == 16
DEFAULT_MASK == Shl(Word(255), DEFAULT_SHIFT)

\* flags handed to new(): debug_assert!(opts < u16::MAX)
OptSet == {0, 1, 1023, 43690, 65534}

SerializerState_new(o) == Word(o)

opts(s) == s

recursion_limit(s) == BitAnd(s, RECURSION_MASK) = RECURSION_MASK

default_calls_limit(s) == BitAnd(s, DEFAULT_MASK) = DEFAULT_MASK

\* copy_for_recursive_call with copy_for_default_call's field
copy_for_recursive_call_default_field(s) ==
    LET opt == BitAnd(s, BitNot(DEFAULT_MASK))
        recursion ==
            Shl(AddOne(Shr(BitAnd(s, DEFAULT_MASK), DEFAULT_SHIFT)), DEFAULT_SHIFT)
    IN  BitOr(opt, recursion)

copy_for_recursive_call(s) ==
    LET opt == BitAnd(s, BitNot(RECURSION_MASK))
        recursion ==
            Shl(AddOne(Shr(BitAnd(s, RECURSION_MASK), RECURSION_SHIFT)), RECURSION_SHIFT)
    IN  BitOr(opt, recursion)

\* the default counter kept one byte too low in the word
copy_for_default_call_low_shift(s) ==
    LET opt == BitAnd(s, BitNot(DEFAULT_MASK))
        default_calls ==
            Shl(AddOne(Shr(BitAnd(s, DEFAULT_MASK), DEFAULT_SHIFT)), DEFAULT_SHIFT - 8)
    IN  BitOr(opt, default_calls)

copy_for_default_call(s) ==
    LET opt == BitAnd(s, BitNot(DEFAULT_MASK))
        default_calls ==
            Shl(AddOne(Shr(BitAnd(s, DEFAULT_MASK), DEFAULT_SHIFT)), DEFAULT_SHIFT)
    IN  BitOr(opt, default_calls)

\* the three fields packed in the word (comment at state.rs:15-17)
RecursionCount(s) == NatOf(Shr(BitAnd(s, RECURSION_MASK), RECURSION_SHIFT))
DefaultCount(s) == NatOf(Shr(BitAnd(s, DEFAULT_MASK), DEFAULT_SHIFT))
OptFlags(s) == NatOf(BitAnd(s, Word(65535)))

\* the ghost counters stop here
MaxCalls == 257

(***************************************************************************)
(* usize arithmetic.  usize is the target's machine word (64 or 32 bits);  *)
(* the model narrows it to WordBits bits so that TLC can enumerate the     *)
(* sizes on both sides of every overflow.  4096 needs 13 of them.          *)
(***************************************************************************)
WordBits == 16
USizeMod == Pow2(WordBits)
USizeMax == USizeMod - 1
\* isize::MAX: no Rust str is longer
ISizeMax == Pow2(WordBits - 1) - 1

Max(a, b) == IF a >= b THEN a ELSE b

\* an arithmetic result of the build: overflow checks panic ("debug"),
\* or the value wraps ("release")
Arith(v, b) ==
    IF v <= USizeMax THEN [panic |-> FALSE, v |-> v]
    ELSE IF b = "debug" THEN [panic |-> TRUE, v |-> 0]
    ELSE [panic |-> FALSE, v |-> v % USizeMod]

\* the smallest power of two >= x, before any truncation to the word
RECURSIVE PowerAtLeast(_, _)
PowerAtLeast(x, p) == IF p >= x THEN p ELSE PowerAtLeast(x, 2 * p)

\* usize::next_power_of_two: panics in debug builds and returns 0 in release
\* builds when the result does not fit the word
next_power_of_two(x, b) ==
    LET p == PowerAtLeast(x, 1)
    IN  IF p <= USizeMax THEN [panic |-> FALSE, v |-> p]
        ELSE IF b = "debug" THEN [panic |-> TRUE, v |-> 0]
        ELSE [panic |-> FALSE, v |-> 0]

(***************************************************************************)
(* interpreter_state.rs: ParseBuffer                                       *)
(***************************************************************************)
\* the heap addresses PyMem_Malloc chooses from; 0 is the null pointer
MaxAddr == 2
Addrs == 1..MaxAddr

ParseBuffer_new == [ptr |-> 0, capacity |-> 0]

\* what PyMem_Malloc may return while the addresses in lv are allocated:
\* null, or a block that is not allocated now
MallocResults(lv) == {0} \cup (Addrs \ lv)

\* ensure_capacity on pool p; m is what PyMem_Malloc returns if it is called.
\* Yields the pool afterwards, the returned pair, the addresses handed to
\* PyMem_Free, whether PyMem_Malloc was called, and whether the call aborted.
ensure_capacity_dangling(p, required, m, b) ==
    IF p.capacity >= required
    THEN [pool |-> p, ret |-> p, freed |-> <<>>, malloc |-> FALSE,
          failed |-> FALSE, panic |-> FALSE]
    ELSE LET freed == IF p.ptr # 0 THEN <<p.ptr>> ELSE <<>>
             npot == next_power_of_two(required, b)
             new_capacity == Max(npot.v, 4096)
             q == IF m = 0 THEN p ELSE [ptr |-> m, capacity |-> new_capacity]
         IN  IF npot.panic
             THEN [pool |-> p, ret |-> p, freed |-> freed, malloc |-> FALSE,
                   failed |-> FALSE, panic |-> TRUE]
             ELSE [pool |-> q, ret |-> [ptr |-> m, capacity |-> IF m = 0 THEN 0 ELSE new_capacity],
                   freed |-> freed, malloc |-> TRUE,
                   failed |-> (m = 0), panic |-> FALSE]

\* ensure_capacity on pool p; m is what PyMem_Malloc returns if it is called.
\* Yields the pool afterwards, the returned pair, the addresses handed to
\* PyMem_Free, whether PyMem_Malloc was called and failed, and whether the
\* call panicked.
ensure_capacity(p, required, m, b) ==
    IF p.capacity >= required
    THEN [pool |-> p, ret |-> p, freed |-> <<>>, malloc |-> FALSE,
          failed |-> FALSE, panic |-> FALSE]
    ELSE LET freed == IF p.ptr # 0 THEN <<p.ptr>> ELSE <<>>
             npot == next_power_of_two(required, b)
             new_capacity == Max(npot.v, 4096)
             q == [ptr |-> m, capacity |-> IF m = 0 THEN 0 ELSE new_capacity]
         IN  IF npot.panic
             \* the old block is already freed and self.ptr still names it
             THEN [pool |-> p, ret |-> p, freed |-> freed, malloc |-> FALSE,
                   failed |-> FALSE, panic |-> TRUE]
             ELSE [pool |-> q, ret |-> q, freed |-> freed, malloc |-> TRUE,
                   failed |-> (m = 0), panic |-> FALSE]

\* Drop for ParseBuffer: the addresses handed to PyMem_Free
ParseBuffer_drop(p) == IF p.ptr # 0 THEN <<p.ptr>> ELSE <<>>

\* the heap after PyMem_Free of each address of fs and after PyMem_Malloc
\* returned m (0: nothing allocated)
SeqToSet(q) == {q[i] : i \in 1..Len(q)}
HeapAfter(lv, fs, m) == (lv \ SeqToSet(fs)) \cup (IF m = 0 THEN {} ELSE {m})
\* some address of fs was not allocated when it was freed
FreesUnallocated(lv, fs) == \E i \in 1..Len(fs) : fs[i] \notin lv

(***************************************************************************)
(* deserialize/backend/yyjson.rs: the document tree                        *)
(*                                                                         *)
(* A document is the parser's flat array of yyjson_val nodes.  A pointer   *)
(* to a node is its byte offset from the root; a node is                   *)
(* [tag, uni]: tag = (length << 8) | type byte, uni the payload (the byte  *)
(* stride uni.ofs of a container, the text of a string, the number).       *)
(***************************************************************************)
YYJSON_TAG_BIT == 8
YYJSON_VAL_SIZE == 16

TAG_ARRAY == 6
TAG_DOUBLE == 20
TAG_FALSE == 3
TAG_INT64 == 12
TAG_NULL == 2
TAG_STRING == 5
TAG_TRUE == 11
TAG_UINT64 == 4
\* yyjson's object type byte (YYJSON_TYPE_OBJ): the container that is not TAG_ARRAY
TAG_OBJECT == 7

MINIMUM_BUFFER_CAPACITY == 4096

NodeAt(doc, ptr) == doc[(ptr \div YYJSON_VAL_SIZE) + 1]
\* a read through ptr stays inside the document
InDoc(doc, ptr) ==
    /\ ptr >= 0
    /\ ptr % YYJSON_VAL_SIZE = 0
    /\ (ptr \div YYJSON_VAL_SIZE) + 1 <= Len(doc)

\* (*val).tag as u8
TagByte(doc, val) == NodeAt(doc, val).tag % 256

yyjson_doc_get_root(doc) == 0

unsafe_yyjson_get_len(doc, val) == NodeAt(doc, val).tag \div Pow2(YYJSON_TAG_BIT)

unsafe_yyjson_get_first(ctn) == ctn + YYJSON_VAL_SIZE

\* tag as u8 & 0b110 == 0b110
unsafe_yyjson_is_ctn(doc, val) == (TagByte(doc, val) \div 2) % 4 = 3

\* stepping over a container as over a scalar
unsafe_yyjson_get_next_container_flat(doc, val) == val + YYJSON_VAL_SIZE

unsafe_yyjson_get_next_container(doc, val) == val + NodeAt(doc, val).uni

unsafe_yyjson_get_next_non_container(val) == val + YYJSON_VAL_SIZE

\* (((len / 2) * 24) + 256 + (MINIMUM_BUFFER_CAPACITY - 1)) & !(MINIMUM_BUFFER_CAPACITY - 1)
buffer_capacity_to_allocate(len, b) ==
    LET prod == Arith((len \div 2) * 24, b)
        sum1 == Arith(prod.v + 256, b)
        sum2 == Arith(sum1.v + (MINIMUM_BUFFER_CAPACITY - 1), b)
    IN  [panic |-> prod.panic \/ sum1.panic \/ sum2.panic,
         v |-> sum2.v - (sum2.v % MINIMUM_BUFFER_CAPACITY)]

(***************************************************************************)
(* The external parser's output for a JSON value, given as a tree:         *)
(*   <<"arr", <<v1, ...>>>>, <<"obj", << <<key, v1>>, ... >>>>,           *)
(*   <<"str", bytes>>, <<"uint", n>>, <<"int", n>>, <<"real", n>>,         *)
(*   <<"true">>, <<"false">>, <<"null">>                                   *)
(***************************************************************************)
MkTag(len, byte) == len * Pow2(YYJSON_TAG_BIT) + byte

RECURSIVE Flatten(_)
RECURSIVE FlattenAll(_, _)
RECURSIVE FlattenPairs(_, _)
Flatten(t) ==
    CASE t[1] = "arr" ->
            LET body == FlattenAll(t[2], 1)
            IN  <<[tag |-> MkTag(Len(t[2]), TAG_ARRAY),
                   uni |-> (Len(body) + 1) * YYJSON_VAL_SIZE]>> \o body
      [] t[1] = "obj" ->
            LET body == FlattenPairs(t[2], 1)
            IN  <<[tag |-> MkTag(Len(t[2]), TAG_OBJECT),
                   uni |-> (Len(body) + 1) * YYJSON_VAL_SIZE]>> \o body
      [] t[1] = "str" -> <<[tag |-> MkTag(Len(t[2]), TAG_STRING), uni |-> t[2]]>>
      [] t[1] = "uint" -> <<[tag |-> MkTag(0, TAG_UINT64), uni |-> t[2]]>>
      [] t[1] = "int" -> <<[tag |-> MkTag(0, TAG_INT64), uni |-> t[2]]>>
      [] t[1] = "real" -> <<[tag |-> MkTag(0, TAG_DOUBLE), uni |-> t[2]]>>
      [] t[1] = "true" -> <<[tag |-> MkTag(0, TAG_TRUE), uni |-> 0]>>
      [] t[1] = "false" -> <<[tag |-> MkTag(0, TAG_FALSE), uni |-> 0]>>
      [] t[1] = "null" -> <<[tag |-> MkTag(0, TAG_NULL), uni |-> 0]>>
FlattenAll(ts, i) ==
    IF i > Len(ts) THEN <<>> ELSE Flatten(ts[i]) \o FlattenAll(ts, i + 1)
FlattenPairs(ps, i) ==
    IF i > Len(ps) THEN <<>>
    ELSE Flatten(<<"str", ps[i][1]>>) \o Flatten(ps[i][2]) \o FlattenPairs(ps, i + 1)

\* the object keys of the model:
\*   "a", "b"; two 16-byte keys with one FNV-1a hash; a 16-byte key of their
\*   slot with another hash; a 16-byte and a 15-byte key with one hash; a
\*   64-byte key of the slot of "b"; a 65-byte key of the slot of "a"
Keys ==
    << <<97>>,
       <<98>>,
       <<100, 110, 98, 102, 102, 105, 103, 109, 110, 102, 112, 104, 99, 99, 104, 101>>,
       <<98, 100, 97, 110, 103, 105, 97, 105, 104, 112, 99, 102, 102, 98, 108, 112>>,
       <<107, 107, 107, 107, 107, 107, 107, 107, 107, 107, 107, 107, 107, 99, 112, 112>>,
       <<112, 108, 98, 101, 102, 111, 106, 103, 105, 100, 98, 103, 103, 98, 102, 102>>,
       <<106, 103, 111, 110, 110, 109, 112, 109, 105, 107, 106, 102, 101, 98, 107>>,
       [i \in 1..64 |-> IF i <= 61 THEN 121 ELSE <<97, 106, 100>>[i - 61]],
       [i \in 1..65 |-> IF i <= 62 THEN 120 ELSE <<97, 103, 109>>[i - 62]] >>
KeyIds == 1..Len(Keys)
KeyIdOf(key_str) == CHOOSE k \in KeyIds : Keys[k] = key_str

\* the JSON texts decoded in the model
JsonTrees ==
    << <<"uint", 1>>,                                          \* 1
       <<"str", <<195, 169>>>>,                                \* "\u00e9"
       <<"arr", <<>>>>,                                        \* []
       <<"obj", <<>>>>,                                        \* {}
       <<"arr", << <<"uint", 1>>, <<"true">> >>>>,            \* [1,true]
       <<"arr", << <<"arr", << <<"int", 0 - 1>> >>>>, <<"null">> >>>>,   \* [[-1],null]
       <<"arr", << <<"arr", <<>>>>, <<"obj", <<>>>> >>>>,     \* [[],{}]
       <<"obj", << <<<<97>>, <<"uint", 1>>>>,
                   <<<<98>>, <<"arr", << <<"uint", 1>>, <<"uint", 2>>, <<"uint", 3>> >>>>>> >>>>,
                                                               \* {"a":1,"b":[1,2,3]}
       <<"obj", << <<<<97>>, <<"obj", << <<<<98>>, <<"arr", <<>>>>>> >>>>>>,
                   <<<<97>>, <<"false">>>> >>>>,               \* {"a":{"b":[]},"a":false}
       <<"obj", << <<Keys[3], <<"uint", 1>>>> >>>>,            \* {"dnbf...":1}
       <<"obj", << <<Keys[4], <<"uint", 1>>>> >>>>,            \* {"bdan...":1}
       <<"obj", << <<Keys[5], <<"uint", 1>>>> >>>>,            \* {"kkkk...":1}
       <<"obj", << <<Keys[3], <<"arr", << <<"uint", 1>> >>>>>>,
                   <<Keys[4], <<"uint", 2>>>> >>>>,            \* {"dnbf...":[1],"bdan...":2}
       <<"arr", << <<"obj", << <<<<97>>, <<"uint", 1>>>> >>>>,
                   <<"obj", << <<<<97>>, <<"uint", 2>>>> >>>> >>>>,   \* [{"a":1},{"a":2}]
       <<"obj", << <<Keys[3], <<"uint", 0>>>>,
                   <<Keys[4], <<"uint", 1>>>>,
                   <<Keys[4], <<"uint", 2>>>> >>>>             \* {"dnbf...":0,"bdan...":1,"bdan...":2}
    >>
DocIds == 1..Len(JsonTrees)
\* the bytes of the shortest text of each; white space makes any longer one
MinTextLen == <<1, 4, 2, 2, 8, 11, 7, 19, 24, 22, 22, 22, 45, 17, 64>>
DocTable == [d \in DocIds |-> Flatten(JsonTrees[d])]
Doc(d) == DocTable[d]

\* the nodes of doc that are containers: where a native container is allocated
ContainerPtrs(doc) ==
    {ptr \in {(i - 1) * YYJSON_VAL_SIZE : i \in 1..Len(doc)} : unsafe_yyjson_is_ctn(doc, ptr)}

(***************************************************************************)
(* deserialize/cache.rs: the direct-mapped key cache.                      *)
(*                                                                         *)
(* Hashes are u64: the model keeps each as its eight bytes.                 *)
(***************************************************************************)
\* a u64 is the sequence of its eight bytes, the least significant first
RECURSIVE Xor8(_, _, _)
Xor8(x, y, n) ==
    IF n = 0 THEN 0 ELSE ((x + y) % 2) + 2 * Xor8(x \div 2, y \div 2, n - 1)

\* the sum of a[i] * b[j] over the byte positions i + j = k (counted from 0)
RECURSIVE Column(_, _, _, _)
Column(a, b, k, i) ==
    IF i > k THEN 0 ELSE a[i + 1] * b[k - i + 1] + Column(a, b, k, i + 1)

\* u64 wrapping_mul: the low eight bytes of the product
RECURSIVE MulFrom(_, _, _, _)
MulFrom(a, b, k, carry) ==
    IF k > 7 THEN <<>>
    ELSE LET t == Column(a, b, k, 0) + carry
         IN  <<t % 256>> \o MulFrom(a, b, k + 1, t \div 256)
wrapping_mul(a, b) == MulFrom(a, b, 0, 0)

\* 0xcbf29ce484222325
FNV_OFFSET == <<37, 35, 34, 132, 228, 156, 242, 203>>
\* 0x100000001b3
FNV_PRIME == <<179, 1, 0, 0, 0, 1, 0, 0>>

\* the loop of fnv1a_hash from byte i on: hash ^= byte as u64, then
\* hash = hash.wrapping_mul(FNV_PRIME)
RECURSIVE FnvFrom(_, _, _)
FnvFrom(data, i, hash) ==
    IF i > Len(data) THEN hash
    \* h ranges over the one value of the step, so that TLC computes it here
    ELSE CHOOSE r \in {FnvFrom(data, i + 1, h) :
                          h \in {wrapping_mul([hash EXCEPT ![1] = Xor8(hash[1], data[i], 8)],
                                              FNV_PRIME)}} : TRUE

fnv1a_hash(data) == FnvFrom(data, 1, FNV_OFFSET)

CACHE_SIZE == 2048
CACHE_MASK == CACHE_SIZE - 1

\* (hash as usize) & CACHE_MASK: the low eleven bits
CacheIndex(hash) == (hash[1] + 256 * hash[2]) % CACHE_SIZE

\* fnv1a_hash of each key of the model, computed once
HashTable == [k \in KeyIds |-> fnv1a_hash(Keys[k])]
KeyHash(key_str) == HashTable[KeyIdOf(key_str)]

\* the slots the keys of the model fall in; every other entry of the 2048
\* stays CacheEntry::empty()
Slots == {CacheIndex(HashTable[k]) : k \in KeyIds}

CacheEntry_empty == [ptr |-> 0, hash |-> <<0, 0, 0, 0, 0, 0, 0, 0>>, len |-> 0]
KeyCache_new == [i \in Slots |-> CacheEntry_empty]

(***************************************************************************)
(* The host's string objects.  strs maps an object's address to its bytes  *)
(* and its reference count; a count of 0 is an address not allocated.      *)
(***************************************************************************)
\* the handles a caller of the cache keeps at one time
MaxHeld == 2
\* the ghost counter of get_unicode_key calls stops here
MaxGets == 4
StrIds == 1..(Cardinality(Slots) + MaxHeld + 4)
NoStr == [bytes |-> <<>>, rc |-> 0]

Py_INCREF(st, p) == [st EXCEPT ![p].rc = @ + 1]
\* the object is deallocated when its last reference goes
Py_DECREF(st, p) ==
    IF st[p].rc <= 1 THEN [st EXCEPT ![p] = NoStr] ELSE [st EXCEPT ![p].rc = @ - 1]

\* PyStr::from_str_with_hash: a new string object holding one reference
from_str_with_hash(st, key_str) ==
    LET p == CHOOSE x \in StrIds : st[x].rc = 0 /\ \A y \in StrIds : st[y].rc = 0 => x <= y
    IN  [strs |-> [st EXCEPT ![p] = [bytes |-> key_str, rc |-> 1]], ptr |-> p]

\* get_or_insert taking a slot of the same length for a hit, whatever its hash
get_or_insert_len_only(km, st, key_str) ==
    LET hash == KeyHash(key_str)
        index == CacheIndex(hash)
        len == Len(key_str) % 256
        entry == km[index]
    IN  IF entry.ptr # 0 /\ entry.len = len
        THEN [key_map |-> km, strs |-> Py_INCREF(st, entry.ptr), ret |-> entry.ptr,
              hit |-> TRUE, evicted |-> 0, bad |-> st[entry.ptr].rc = 0]
        ELSE LET n == from_str_with_hash(st, key_str)
                 st1 == IF entry.ptr # 0 THEN Py_DECREF(n.strs, entry.ptr) ELSE n.strs
             IN  [key_map |-> [km EXCEPT ![index] = [ptr |-> n.ptr, hash |-> hash, len |-> len]],
                  strs |-> Py_INCREF(st1, n.ptr), ret |-> n.ptr,
                  hit |-> FALSE, evicted |-> entry.ptr,
                  bad |-> entry.ptr # 0 /\ st[entry.ptr].rc = 0]

\* get_or_insert overwriting the slot without releasing the handle in it
get_or_insert_keeping_evicted(km, st, key_str) ==
    LET hash == KeyHash(key_str)
        index == CacheIndex(hash)
        len == Len(key_str) % 256
        entry == km[index]
    IN  IF entry.ptr # 0 /\ entry.hash = hash /\ entry.len = len
        THEN [key_map |-> km, strs |-> Py_INCREF(st, entry.ptr), ret |-> entry.ptr,
              hit |-> TRUE, evicted |-> 0, bad |-> st[entry.ptr].rc = 0]
        ELSE LET n == from_str_with_hash(st, key_str)
             IN  [key_map |-> [km EXCEPT ![index] = [ptr |-> n.ptr, hash |-> hash, len |-> len]],
                  strs |-> Py_INCREF(n.strs, n.ptr), ret |-> n.ptr,
                  hit |-> FALSE, evicted |-> entry.ptr, bad |-> FALSE]

\* KeyCache::get_or_insert(key_str) on the entries km and the objects st:
\* the entries and objects afterwards, the handle returned, whether it was a
\* hit, the handle evicted (0: none) and whether a reference was taken or
\* dropped on an object already deallocated
get_or_insert(km, st, key_str) ==
    LET hash == KeyHash(key_str)
        index == CacheIndex(hash)
        len == Len(key_str) % 256
        entry == km[index]
    IN  IF entry.ptr # 0 /\ entry.hash = hash /\ entry.len = len
        THEN [key_map |-> km, strs |-> Py_INCREF(st, entry.ptr), ret |-> entry.ptr,
              hit |-> TRUE, evicted |-> 0, bad |-> st[entry.ptr].rc = 0]
        ELSE LET n == from_str_with_hash(st, key_str)
                 st1 == IF entry.ptr # 0 THEN Py_DECREF(n.strs, entry.ptr) ELSE n.strs
             IN  [key_map |-> [km EXCEPT ![index] = [ptr |-> n.ptr, hash |-> hash, len |-> len]],
                  strs |-> Py_INCREF(st1, n.ptr), ret |-> n.ptr,
                  hit |-> FALSE, evicted |-> entry.ptr,
                  bad |-> entry.ptr # 0 /\ st[entry.ptr].rc = 0]

\* Drop for KeyCache: every entry that holds a handle releases it
RECURSIVE DropEntries(_, _, _)
DropEntries(km, st, todo) ==
    IF todo = {} THEN [key_map |-> km, strs |-> st, bad |-> FALSE]
    ELSE LET i == CHOOSE x \in todo : \A y \in todo : x <= y
             r == DropEntries([km EXCEPT ![i].ptr = 0],
                              IF km[i].ptr # 0 THEN Py_DECREF(st, km[i].ptr) ELSE st,
                              todo \ {i})
         IN  [r EXCEPT !.bad = @ \/ (km[i].ptr # 0 /\ st[km[i].ptr].rc = 0)]
KeyCache_drop(km, st) == DropEntries(km, st, Slots)

(***************************************************************************)
(* deserialize/backend/yyjson.rs: materialization                          *)
(*                                                                         *)
(* Native values: <<"list", items>>, <<"dict", pairs>>, <<"str", bytes>>,  *)
(* <<"int", n>>, <<"float", n>>, <<"True">>, <<"False">>, <<"None">>;      *)
(* NullObj is the null pointer a failed allocation returns.  oom is the    *)
(* set of container nodes whose PyList_New / _PyDict_NewPresized call      *)
(* fails.  Each step yields [ub, v]: ub when the code dereferenced a null  *)
(* container, v the value built otherwise.                                 *)
(***************************************************************************)
NullObj == <<"NULL">>

parse_primitive(doc, val) ==
    LET tag == TagByte(doc, val)
    IN  CASE tag = TAG_STRING -> <<"str", NodeAt(doc, val).uni>>
          [] tag = TAG_UINT64 -> <<"int", NodeAt(doc, val).uni>>
          [] tag = TAG_INT64 -> <<"int", NodeAt(doc, val).uni>>
          [] tag = TAG_DOUBLE -> <<"float", NodeAt(doc, val).uni>>
          [] tag = TAG_TRUE -> <<"True">>
          [] tag = TAG_FALSE -> <<"False">>
          [] tag = TAG_NULL -> <<"None">>

\* PyList_New(len) / _PyDict_NewPresized(len) for the container node val
PyList_New(val, oom) == IF val \in oom THEN NullObj ELSE <<"list", <<>>>>
PyDict_NewPresized(val, oom) == IF val \in oom THEN NullObj ELSE <<"dict", <<>>>>

\* pydict_setitem!: the host dict keeps one entry per key, the last value
\* stored under a key replacing the earlier one in place
RECURSIVE DictSet(_, _, _, _)
DictSet(pairs, k, v, i) ==
    IF i > Len(pairs) THEN Append(pairs, <<k, v>>)
    ELSE IF pairs[i][1] = k THEN [pairs EXCEPT ![i] = <<k, v>>]
    ELSE DictSet(pairs, k, v, i + 1)

\* get_unicode_key sending keys of every length to the cache
get_unicode_key_no_ceiling(km, st, key_str, nogil) ==
    IF nogil
    THEN LET n == from_str_with_hash(st, key_str)
         IN  [key_map |-> km, strs |-> n.strs, ret |-> n.ptr,
              hit |-> FALSE, evicted |-> 0, bad |-> FALSE]
    ELSE get_or_insert(km, st, key_str)

\* get_unicode_key(key_str, interpreter_state): keys above 64 bytes are built
\* afresh; the others go through the context's key_map, a KeyCache.  Built
\* with Py_GIL_DISABLED there is no key_map and every key is built afresh.
get_unicode_key(km, st, key_str, nogil) ==
    IF nogil \/ Len(key_str) > 64
    THEN LET n == from_str_with_hash(st, key_str)
         IN  [key_map |-> km, strs |-> n.strs, ret |-> n.ptr,
              hit |-> FALSE, evicted |-> 0, bad |-> FALSE]
    ELSE get_or_insert(km, st, key_str)

\* the key cache as a decode call sees it: the entries, the string objects,
\* the handles given out during the call and the build
KeyState(km, st, nogil) ==
    [key_map |-> km, strs |-> st, out |-> <<>>, nogil |-> nogil,
     ev |-> <<>>, frames |-> <<>>]
\* the string a handle denotes
StrOf(st, p) == <<"str", st[p].bytes>>
\* the references of the handles hs are given up
RECURSIVE ReleaseAll(_, _)
ReleaseAll(st, hs) ==
    IF hs = <<>> THEN st ELSE ReleaseAll(Py_DECREF(st, Head(hs)), Tail(hs))

(***************************************************************************)
(* What a decode call does to the document and to the host's objects, in   *)
(* the order in which it does it (kc.ev), and the populate calls that have *)
(* not returned (kc.frames).  A native value is named by the node it is    *)
(* made from, a key string by its address.                                 *)
(***************************************************************************)
NoFrame == 0 - 1
Emit(kc, e) == [kc EXCEPT !.ev = Append(@, e)]
\* the container node the innermost populate call works on
Owner(kc) == IF kc.frames = <<>> THEN NoFrame ELSE kc.frames[Len(kc.frames)]
\* the cursor is dereferenced: (*val).tag, (*val).uni
ReadNode(kc, ptr) == Emit(kc, <<"read", Owner(kc), ptr>>)
\* PyList_New, _PyDict_NewPresized or parse_primitive has given pyval for val
Construct(kc, val, pyval) ==
    Emit(kc, IF pyval = NullObj THEN <<"null", val>> ELSE <<"new", val>>)
\* append_to_list! with a dptr that stays on the first slot
append_to_list_no_advance(kc, i, val) == Emit(kc, <<"store", Owner(kc), 0, val>>)

\* append_to_list!(dptr, pyval): the i-th slot of the list takes the value
append_to_list(kc, i, val) == Emit(kc, <<"store", Owner(kc), i, val>>)
\* pydict_setitem!(dict, pykey, pyval): the dict takes the key and the value
pydict_setitem(kc, pykey, val) == Emit(kc, <<"setitem", Owner(kc), pykey, val>>)
\* get_unicode_key has given the handle ret for the key node
KeyEvent(kc, next_key, g) == Emit(kc, <<"key", Owner(kc), next_key, g.ret, g.hit>>)
\* a populate call starts on the container node elem, and returns
EnterFrame(kc, elem) ==
    [kc EXCEPT !.ev = Append(@, <<"enter", elem>>), !.frames = Append(@, elem)]
ExitFrame(kc) ==
    [kc EXCEPT !.ev = Append(@, <<"exit", Owner(kc)>>),
               !.frames = SubSeq(@, 1, Len(@) - 1)]

RECURSIVE populate_yy_array(_, _, _, _, _)
RECURSIVE populate_yy_object(_, _, _, _, _)
RECURSIVE ArrayLoop(_, _, _, _, _, _, _)
RECURSIVE ObjectLoop(_, _, _, _, _, _, _)
RECURSIVE ArrayStore(_, _, _, _, _, _, _)
RECURSIVE ObjectStore(_, _, _, _, _, _, _, _)
RECURSIVE ObjectPair(_, _, _, _, _, _, _, _)

\* a pass of populate_yy_array that descends into empty containers too
ArrayLoop_into_empty(doc, i, len, next, items, oom, kc) ==
    IF i = len THEN [ub |-> FALSE, v |-> <<"list", items>>, kc |-> ExitFrame(kc)]
    ELSE
    LET val == next
    IN  IF unsafe_yyjson_is_ctn(doc, val)
        THEN LET nxt == unsafe_yyjson_get_next_container(doc, val)
                 isArr == TagByte(doc, val) = TAG_ARRAY
                 pyval == IF isArr THEN PyList_New(val, oom)
                          ELSE PyDict_NewPresized(val, oom)
                 kc1 == append_to_list(Construct(ReadNode(kc, val), val, pyval), i, val)
             IN  ArrayStore(doc, i, len, nxt, items, oom,
                            IF isArr THEN populate_yy_array(doc, pyval, val, oom, kc1)
                            ELSE populate_yy_object(doc, pyval, val, oom, kc1))
        ELSE LET nxt == unsafe_yyjson_get_next_non_container(val)
                 pyval == parse_primitive(doc, val)
             IN  ArrayLoop(doc, i + 1, len, nxt, Append(items, pyval), oom,
                           append_to_list(Construct(ReadNode(kc, val), val, pyval), i, val))

\* one pass of `for _ in 0..len` of populate_yy_array: i passes done, next the
\* cursor, items what has been written through dptr
ArrayLoop(doc, i, len, next, items, oom, kc) ==
    IF i = len THEN [ub |-> FALSE, v |-> <<"list", items>>, kc |-> ExitFrame(kc)]
    ELSE
    LET val == next
    IN  IF unsafe_yyjson_is_ctn(doc, val)
        THEN LET nxt == unsafe_yyjson_get_next_container(doc, val)
                 nested_len == unsafe_yyjson_get_len(doc, val)
                 isArr == TagByte(doc, val) = TAG_ARRAY
                 pyval == IF isArr THEN PyList_New(val, oom)
                          ELSE PyDict_NewPresized(val, oom)
                 kc1 == append_to_list(Construct(ReadNode(kc, val), val, pyval), i, val)
             IN  ArrayStore(doc, i, len, nxt, items, oom,
                            IF nested_len > 0
                            THEN (IF isArr THEN populate_yy_array(doc, pyval, val, oom, kc1)
                                  ELSE populate_yy_object(doc, pyval, val, oom, kc1))
                            ELSE [ub |-> FALSE, v |-> pyval, kc |-> kc1])
        ELSE LET nxt == unsafe_yyjson_get_next_non_container(val)
                 pyval == parse_primitive(doc, val)
             IN  ArrayLoop(doc, i + 1, len, nxt, Append(items, pyval), oom,
                           append_to_list(Construct(ReadNode(kc, val), val, pyval), i, val))

\* the end of a pass of populate_yy_array over a container element: r is
\* what populating the element gave
ArrayStore(doc, i, len, nxt, items, oom, r) ==
    IF r.ub THEN [ub |-> TRUE, v |-> NullObj, kc |-> r.kc]
    ELSE ArrayLoop(doc, i + 1, len, nxt, Append(items, r.v), oom, r.kc)

\* populate_yy_array(list, elem, state): reads (*list).ob_item first
populate_yy_array(doc, list, elem, oom, kc) ==
    IF list = NullObj THEN [ub |-> TRUE, v |-> NullObj, kc |-> kc]
    ELSE ArrayLoop(doc, 0, unsafe_yyjson_get_len(doc, elem),
                   unsafe_yyjson_get_first(elem), <<>>, oom, EnterFrame(kc, elem))

\* one pass of `for _ in 0..len` of populate_yy_object
ObjectLoop(doc, i, len, next_key, pairs, oom, kc0) ==
    IF i = len THEN [ub |-> FALSE, v |-> <<"dict", pairs>>, kc |-> ExitFrame(kc0)]
    ELSE ObjectPair(doc, i, len, next_key, pairs, oom, kc0,
                    get_unicode_key(kc0.key_map, kc0.strs, NodeAt(doc, next_key).uni,
                                    kc0.nogil))

\* the pass of populate_yy_object once the key is interned: g is what
\* get_unicode_key gave
ObjectPair(doc, i, len, next_key, pairs, oom, kc0, g) ==
    LET val == next_key + YYJSON_VAL_SIZE
        kg == [kc0 EXCEPT !.key_map = g.key_map, !.strs = g.strs, !.out = Append(@, g.ret)]
        pykey == StrOf(g.strs, g.ret)
    IN  IF unsafe_yyjson_is_ctn(doc, val)
        THEN LET nxt == unsafe_yyjson_get_next_container(doc, val)
                 nested_len == unsafe_yyjson_get_len(doc, val)
                 isArr == TagByte(doc, val) = TAG_ARRAY
                 pyval == IF isArr THEN PyList_New(val, oom)
                          ELSE PyDict_NewPresized(val, oom)
                 kc == pydict_setitem(
                           Construct(ReadNode(KeyEvent(ReadNode(kg, next_key), next_key, g),
                                              val), val, pyval), g.ret, val)
             IN  ObjectStore(doc, i, len, nxt, pairs, pykey, oom,
                             IF pyval = NullObj
                             \* pydict_setitem! takes a reference to the null value
                             THEN [ub |-> TRUE, v |-> NullObj, kc |-> kc]
                             ELSE IF nested_len > 0
                             THEN (IF isArr THEN populate_yy_array(doc, pyval, val, oom, kc)
                                   ELSE populate_yy_object(doc, pyval, val, oom, kc))
                             ELSE [ub |-> FALSE, v |-> pyval, kc |-> kc])
        ELSE LET nxt == unsafe_yyjson_get_next_non_container(val)
                 pyval == parse_primitive(doc, val)
             IN  ObjectLoop(doc, i + 1, len, nxt, DictSet(pairs, pykey, pyval, 1), oom,
                            pydict_setitem(
                                Construct(ReadNode(KeyEvent(ReadNode(kg, next_key),
                                                            next_key, g), val),
                                          val, pyval), g.ret, val))

\* the end of a pass of populate_yy_object over a container value: r is what
\* populating the value gave
ObjectStore(doc, i, len, nxt, pairs, pykey, oom, r) ==
    IF r.ub THEN [ub |-> TRUE, v |-> NullObj, kc |-> r.kc]
    ELSE ObjectLoop(doc, i + 1, len, nxt, DictSet(pairs, pykey, r.v, 1), oom, r.kc)

\* populate_yy_object(dict, elem, state): the first pydict_setitem! writes
\* through dict
populate_yy_object(doc, dict, elem, oom, kc) ==
    IF dict = NullObj THEN [ub |-> TRUE, v |-> NullObj, kc |-> kc]
    ELSE ObjectLoop(doc, 0, unsafe_yyjson_get_len(doc, elem),
                    unsafe_yyjson_get_first(elem), <<>>, oom, EnterFrame(kc, elem))

\* lines 119-142 of deserialize: the root dispatch
materialize(doc, oom, kc) ==
    LET val == yyjson_doc_get_root(doc)
    IN  IF ~unsafe_yyjson_is_ctn(doc, val)
        THEN [ub |-> FALSE, v |-> parse_primitive(doc, val),
              kc |-> Construct(ReadNode(kc, val), val, parse_primitive(doc, val))]
        ELSE LET len == unsafe_yyjson_get_len(doc, val)
                 isArr == TagByte(doc, val) = TAG_ARRAY
                 pyval == IF isArr THEN PyList_New(val, oom)
                          ELSE PyDict_NewPresized(val, oom)
                 kc1 == Construct(ReadNode(kc, val), val, pyval)
             IN  IF pyval = NullObj
                 \* nonnull! wraps the null pointer unchecked
                 THEN [ub |-> TRUE, v |-> NullObj, kc |-> kc1]
                 ELSE IF len > 0
                 THEN (IF isArr THEN populate_yy_array(doc, pyval, val, oom, kc1)
                       ELSE populate_yy_object(doc, pyval, val, oom, kc1))
                 ELSE [ub |-> FALSE, v |-> pyval, kc |-> kc1]

(***************************************************************************)
(* deserialize/backend/yyjson.rs: deserialize                              *)
(***************************************************************************)
\* the parser's error messages (ASCII C strings) and CStr::to_string_lossy,
\* which keeps ASCII bytes and puts U+FFFD where the bytes are not UTF-8
ParserMessages == {<<117, 110, 101, 120, 112>>, <<101, 111, 102>>}
to_string_lossy(bytes) ==
    [i \in 1..Len(bytes) |-> IF bytes[i] < 128 THEN bytes[i] ELSE 65533]

\* `err.pos as i64`: the word reinterpreted as signed
AsI64(pos) == IF pos <= ISizeMax THEN pos ELSE pos - USizeMod

\* what yyjson_read_opts may answer for an input of len bytes: a document
\* whose text fits, or null with a message and a position in the input
ParserOutcomes(len) ==
    {[ok |-> TRUE, doc |-> d, msg |-> <<>>, pos |-> 0] :
        d \in {x \in DocIds : MinTextLen[x] <= len}}
    \cup {[ok |-> FALSE, doc |-> 0, msg |-> e, pos |-> q] :
            e \in ParserMessages, q \in {0, len}}

\* which container allocations fail during one materialization: none or one
OomChoices(parse) ==
    IF parse.ok THEN {{}} \cup {{c} : c \in ContainerPtrs(Doc(parse.doc))} ELSE {{}}

\* what a build does after dereferencing a null container: the process dies,
\* or the call runs on and returns
UBOutcomes == {"abort", "returns"}

NoMemoryMessage == <<78, 111, 116, 32, 101, 110, 111, 117, 103, 104>>

from_yyjson(msg, pos) == [kind |-> "Err", msg |-> msg, pos |-> pos]

\* lines 119-142 of deserialize: r is what materializing the document gave
deserialize_ok(e, u, r) ==
    [pool |-> e.pool, freed |-> <<>>,
     \* Ok(pyval): the value made from the root node goes to the caller
     kc |-> IF r.ub THEN r.kc ELSE Emit(r.kc, <<"return", 0>>),
     result |-> IF r.ub /\ u = "abort" THEN [kind |-> "crash"]
                ELSE [kind |-> "Ok", val |-> r.v]]

\* the tail of deserialize releasing the buffer when the parser rejects
deserialize_parse_freeing(e, parse, oom, u, kc) ==
    IF ~parse.ok
    THEN [pool |-> [ptr |-> 0, capacity |-> 0], freed |-> <<e.ret.ptr>>, kc |-> kc,
          result |-> from_yyjson(to_string_lossy(parse.msg), AsI64(parse.pos))]
    ELSE deserialize_ok(e, u, materialize(Doc(parse.doc), oom, kc))

\* the tail of deserialize once the buffer is there: parse, then materialize
deserialize_parse(e, parse, oom, u, kc) ==
    IF ~parse.ok
    \* the buffer stays with the pool
    THEN [pool |-> e.pool, freed |-> <<>>, kc |-> kc,
          result |-> from_yyjson(to_string_lossy(parse.msg), AsI64(parse.pos))]
    ELSE deserialize_ok(e, u, materialize(Doc(parse.doc), oom, kc))

\* deserialize(data, interpreter_state) on pool p for an input of len bytes;
\* m is PyMem_Malloc's answer, parse the parser's, oom the failing container
\* allocations, u the outcome of undefined behaviour, b the build, kc the
\* context's key cache
deserialize_from(p, kc, cap, e, t) ==
        IF cap.panic
        THEN [panic |-> TRUE, required |-> 0, pool |-> p, ensured |-> p, ret |-> p,
              freed |-> <<>>, malloc |-> FALSE, failed |-> FALSE, kc |-> kc,
              parserCalled |-> FALSE, result |-> [kind |-> "panic"]]
        ELSE IF e.panic
        THEN [panic |-> TRUE, required |-> cap.v, pool |-> e.pool, ensured |-> e.pool,
              ret |-> e.ret, freed |-> e.freed, malloc |-> FALSE, failed |-> FALSE,
              kc |-> kc, parserCalled |-> FALSE, result |-> [kind |-> "panic"]]
        ELSE IF e.ret.ptr = 0
        THEN [panic |-> FALSE, required |-> cap.v, pool |-> e.pool, ensured |-> e.pool,
              ret |-> e.ret, freed |-> e.freed, malloc |-> e.malloc, failed |-> e.failed,
              kc |-> kc, parserCalled |-> FALSE, result |-> from_yyjson(NoMemoryMessage, 0)]
        ELSE [panic |-> FALSE, required |-> cap.v, pool |-> t.pool, ensured |-> e.pool,
              ret |-> e.ret, freed |-> e.freed \o t.freed, malloc |-> e.malloc,
              failed |-> e.failed, kc |-> t.kc, parserCalled |-> TRUE, result |-> t.result]

deserialize_sized(p, m, parse, oom, u, b, kc, cap, e) ==
    deserialize_from(p, kc, cap, e, deserialize_parse(e, parse, oom, u, kc))

deserialize(p, len, m, parse, oom, u, b, kc) ==
    LET cap == buffer_capacity_to_allocate(len, b)
    IN  deserialize_sized(p, m, parse, oom, u, b, kc, cap, ensure_capacity(p, cap.v, m, b))

\* the input lengths decoded: small ones, the shortest whose buffer size
\* exceeds half the word, the shortest whose size computation leaves the
\* word, and the longest a str can have
LenHuge == 2 * ((Pow2(WordBits - 1) \div 24) + 1)
LenWrap == 2 * (((USizeMod - 4351) \div 24) + 1)
Lens == {1, 322, 700, LenHuge, LenWrap, ISizeMax}

\* the sizes ensure_capacity is asked for directly
ReqSizes == {0, 1, 4096, 4097, Pow2(WordBits - 1), Pow2(WordBits - 1) + 1, USizeMax}

\* no decode call of the document has returned yet
NoResult == [kind |-> "none"]

PoolIdle ==
    [op |-> "none"]

(***************************************************************************)
(* interpreter_state.rs: the registry of contexts and the per-thread slot. *)
(*                                                                         *)
(* An interpreter is known by its id (PyInterpreterState_GetID) and by the *)
(* address of its hyperjson module object, which PyImport_ImportModule     *)
(* returns; a context is known by the address of its box.                  *)
(***************************************************************************)
MaxThreads == 2
Threads == 1..MaxThreads
MaxInterps == 2
Interps == 1..MaxInterps
\* the calls into the extension one run makes
MaxLookups == 3

\* one module instance for all the interpreters
PyImport_ImportModule_shared(i) == <<"module", 1>>

\* "each interpreter has its own module instance"
PyImport_ImportModule(i) == <<"module", i>>
Modules == {PyImport_ImportModule(i) : i \in Interps}

\* the thread-local statics before a thread's first call
CachedNone == [id |-> 0 - 1, state |-> 0]

\* get_current_state never taking the per-thread slot's answer
cache_hit_never(c, interp_id) == FALSE

\* get_current_state taking the answer of any filled slot
cache_hit_any(c, interp_id) == c.id # 0 - 1

\* the test of get_current_state on the per-thread slot
cache_hit(c, interp_id) == c.id = interp_id

\* HashMap::entry(key).or_insert_with(|| Box::new(InterpreterState::new()))
\* always building a context
or_insert_always(map, key, fresh) ==
    [map |-> [map EXCEPT ![key] = fresh], ptr |-> fresh, created |-> TRUE]

\* HashMap::entry(key).or_insert_with(|| Box::new(InterpreterState::new())):
\* fresh is the address the box gets if it is built
or_insert_with(map, key, fresh) ==
    IF map[key] # 0
    THEN [map |-> map, ptr |-> map[key], created |-> FALSE]
    ELSE [map |-> [map EXCEPT ![key] = fresh], ptr |-> fresh, created |-> TRUE]

ThreadIdle == [pc |-> "idle", interp |-> 0, module |-> 0, state |-> 0,
               prev |-> 0 - 1, locked |-> FALSE]

InitRegistry ==
    /\ interpreter_states = [m \in Modules |-> 0]
    /\ guard = 0
    /\ cached = [t \in Threads |-> CachedNone]
    /\ gil = [i \in Interps |-> 0]
    /\ thr = [t \in Threads |-> ThreadIdle]
    /\ regLog = [created |-> [i \in Interps |-> 0],
                 returned |-> [i \in Interps |-> {}],
                 locks |-> [t \in Threads |-> [i \in Interps |-> 0]],
                 raced |-> [i \in Interps |-> FALSE],
                 calls |-> 0]

(***************************************************************************)
(* serialize/obtype.rs: the classifier.                                    *)
(*                                                                         *)
(* A type object is [exact, base, enum, numpy]: the built-in or companion  *)
(* type it is ("other" for a class of the host program), the subclass bit  *)
(* of its tp_flags, whether the enum test takes it, and what the numpy     *)
(* tests say of it.  Its dict is state of the host: tp_dict.               *)
(***************************************************************************)
PASSTHROUGH_DATETIME == "PASSTHROUGH_DATETIME"
PASSTHROUGH_SUBCLASS == "PASSTHROUGH_SUBCLASS"
PASSTHROUGH_DATACLASS == "PASSTHROUGH_DATACLASS"
SERIALIZE_NUMPY == "SERIALIZE_NUMPY"

opt_enabled(o, flag) == flag \in o
opt_disabled(o, flag) == flag \notin o

Ty(exact, base, enum, numpy) ==
    [exact |-> exact, base |-> base, enum |-> enum, numpy |-> numpy]

TypeObjs ==
    << Ty("str", "unicode", FALSE, "none"),
       Ty("int", "long", FALSE, "none"),
       Ty("bool", "long", FALSE, "none"),
       Ty("none", "none", FALSE, "none"),
       Ty("float", "none", FALSE, "none"),
       Ty("list", "list", FALSE, "none"),
       Ty("dict", "dict", FALSE, "none"),
       Ty("datetime", "none", FALSE, "none"),
       Ty("uuid", "none", FALSE, "none"),
       Ty("tuple", "none", FALSE, "none"),
       Ty("fragment", "none", FALSE, "none"),
       Ty("date", "none", FALSE, "none"),
       Ty("time", "none", FALSE, "none"),
       Ty("other", "unicode", FALSE, "none"),   \* class S(str)
       Ty("other", "long", TRUE, "none"),       \* class E(enum.IntEnum)
       Ty("other", "list", FALSE, "none"),      \* class L(list)
       Ty("other", "dict", FALSE, "none"),      \* class D(dict)
       Ty("other", "none", TRUE, "none"),       \* class E(enum.Enum)
       Ty("other", "none", FALSE, "none"),      \* class C
       Ty("other", "none", FALSE, "scalar"),    \* numpy.float64
       Ty("other", "none", FALSE, "array"),     \* numpy.ndarray
       Ty("other", "unicode", TRUE, "none") >>  \* class E(str, enum.Enum)
TypeIds == 1..Len(TypeObjs)
\* the classes of the host program, whose dict the program can change
HostClasses == {17, 19}

\* the flag words of the calls
OptSets ==
    { {}, {PASSTHROUGH_SUBCLASS}, {PASSTHROUGH_DATACLASS},
      {PASSTHROUGH_DATETIME, PASSTHROUGH_SUBCLASS, PASSTHROUGH_DATACLASS, SERIALIZE_NUMPY} }

\* every flag word over the four flags the classifier reads
AllOpts ==
    SUBSET {PASSTHROUGH_DATETIME, PASSTHROUGH_SUBCLASS, PASSTHROUGH_DATACLASS,
            SERIALIZE_NUMPY}
\* the classes a program can decorate as dataclasses
UserClasses == {16, 17, 19, 22}

\* the bits of the four flags in the flag word: new() takes words below
\* u16::MAX, so each flag is one of the bits 0..15; three layouts of them
FlagPlacements ==
    << (SERIALIZE_NUMPY :> 4) @@ (PASSTHROUGH_SUBCLASS :> 8)
          @@ (PASSTHROUGH_DATETIME :> 9) @@ (PASSTHROUGH_DATACLASS :> 11),
       (SERIALIZE_NUMPY :> 0) @@ (PASSTHROUGH_SUBCLASS :> 1)
          @@ (PASSTHROUGH_DATETIME :> 2) @@ (PASSTHROUGH_DATACLASS :> 3),
       (SERIALIZE_NUMPY :> 12) @@ (PASSTHROUGH_SUBCLASS :> 13)
          @@ (PASSTHROUGH_DATETIME :> 14) @@ (PASSTHROUGH_DATACLASS :> 15) >>

\* opt_enabled!(opts, FLAG) for each flag: the flags the u32 word opts has
\* set, the flags at the bits place
flags_of(word, place) == {f \in DOMAIN place : place[f] \in word}

\* pydict_contains!(ob_type, dataclass_fields_str): has_fields is what the
\* type's dict holds at the call
\* the subclass flags tested whatever the flag word says
pyobject_to_obtype_unlikely_any_subclass(ob_type, has_fields, o) ==
    IF ob_type.exact = "uuid" THEN "Uuid"
    ELSE IF ob_type.exact = "tuple" THEN "Tuple"
    ELSE IF ob_type.exact = "fragment" THEN "Fragment"
    ELSE IF opt_disabled(o, PASSTHROUGH_DATETIME) /\ ob_type.exact = "date" THEN "Date"
    ELSE IF opt_disabled(o, PASSTHROUGH_DATETIME) /\ ob_type.exact = "time" THEN "Time"
    ELSE IF ob_type.base = "unicode" THEN "StrSubclass"
    ELSE IF ob_type.base = "long" THEN "Int"
    ELSE IF ob_type.base = "list" THEN "List"
    ELSE IF ob_type.base = "dict" THEN "Dict"
    ELSE IF ob_type.enum THEN "Enum"
    ELSE IF opt_disabled(o, PASSTHROUGH_DATACLASS) /\ has_fields THEN "Dataclass"
    ELSE IF opt_enabled(o, SERIALIZE_NUMPY) /\ ob_type.numpy = "scalar" THEN "NumpyScalar"
    ELSE IF opt_enabled(o, SERIALIZE_NUMPY) /\ ob_type.numpy = "array" THEN "NumpyArray"
    ELSE "Unknown"

\* the date and time identities tested whatever the flag word says
pyobject_to_obtype_unlikely_any_date(ob_type, has_fields, o) ==
    IF ob_type.exact = "uuid" THEN "Uuid"
    ELSE IF ob_type.exact = "tuple" THEN "Tuple"
    ELSE IF ob_type.exact = "fragment" THEN "Fragment"
    ELSE IF ob_type.exact = "date" THEN "Date"
    ELSE IF ob_type.exact = "time" THEN "Time"
    ELSE IF opt_disabled(o, PASSTHROUGH_SUBCLASS) /\ ob_type.base = "unicode"
    THEN "StrSubclass"
    ELSE IF opt_disabled(o, PASSTHROUGH_SUBCLASS) /\ ob_type.base = "long" THEN "Int"
    ELSE IF opt_disabled(o, PASSTHROUGH_SUBCLASS) /\ ob_type.base = "list" THEN "List"
    ELSE IF opt_disabled(o, PASSTHROUGH_SUBCLASS) /\ ob_type.base = "dict" THEN "Dict"
    ELSE IF ob_type.enum THEN "Enum"
    ELSE IF opt_disabled(o, PASSTHROUGH_DATACLASS) /\ has_fields THEN "Dataclass"
    ELSE IF opt_enabled(o, SERIALIZE_NUMPY) /\ ob_type.numpy = "scalar" THEN "NumpyScalar"
    ELSE IF opt_enabled(o, SERIALIZE_NUMPY) /\ ob_type.numpy = "array" THEN "NumpyArray"
    ELSE "Unknown"

\* the enum marker tested before the subclass flags
pyobject_to_obtype_unlikely_enum_first(ob_type, has_fields, o) ==
    IF ob_type.exact = "uuid" THEN "Uuid"
    ELSE IF ob_type.exact = "tuple" THEN "Tuple"
    ELSE IF ob_type.exact = "fragment" THEN "Fragment"
    ELSE IF opt_disabled(o, PASSTHROUGH_DATETIME) /\ ob_type.exact = "date" THEN "Date"
    ELSE IF opt_disabled(o, PASSTHROUGH_DATETIME) /\ ob_type.exact = "time" THEN "Time"
    ELSE IF ob_type.enum THEN "Enum"
    ELSE IF opt_disabled(o, PASSTHROUGH_SUBCLASS) /\ ob_type.base = "unicode"
    THEN "StrSubclass"
    ELSE IF opt_disabled(o, PASSTHROUGH_SUBCLASS) /\ ob_type.base = "long" THEN "Int"
    ELSE IF opt_disabled(o, PASSTHROUGH_SUBCLASS) /\ ob_type.base = "list" THEN "List"
    ELSE IF opt_disabled(o, PASSTHROUGH_SUBCLASS) /\ ob_type.base = "dict" THEN "Dict"
    ELSE IF opt_disabled(o, PASSTHROUGH_DATACLASS) /\ has_fields THEN "Dataclass"
    ELSE IF opt_enabled(o, SERIALIZE_NUMPY) /\ ob_type.numpy = "scalar" THEN "NumpyScalar"
    ELSE IF opt_enabled(o, SERIALIZE_NUMPY) /\ ob_type.numpy = "array" THEN "NumpyArray"
    ELSE "Unknown"

pyobject_to_obtype_unlikely(ob_type, has_fields, o) ==
    IF ob_type.exact = "uuid" THEN "Uuid"
    ELSE IF ob_type.exact = "tuple" THEN "Tuple"
    ELSE IF ob_type.exact = "fragment" THEN "Fragment"
    ELSE IF opt_disabled(o, PASSTHROUGH_DATETIME) /\ ob_type.exact = "date" THEN "Date"
    ELSE IF opt_disabled(o, PASSTHROUGH_DATETIME) /\ ob_type.exact = "time" THEN "Time"
    ELSE IF opt_disabled(o, PASSTHROUGH_SUBCLASS) /\ ob_type.base = "unicode"
    THEN "StrSubclass"
    ELSE IF opt_disabled(o, PASSTHROUGH_SUBCLASS) /\ ob_type.base = "long" THEN "Int"
    ELSE IF opt_disabled(o, PASSTHROUGH_SUBCLASS) /\ ob_type.base = "list" THEN "List"
    ELSE IF opt_disabled(o, PASSTHROUGH_SUBCLASS) /\ ob_type.base = "dict" THEN "Dict"
    ELSE IF ob_type.enum THEN "Enum"
    ELSE IF opt_disabled(o, PASSTHROUGH_DATACLASS) /\ has_fields THEN "Dataclass"
    ELSE IF opt_enabled(o, SERIALIZE_NUMPY) /\ ob_type.numpy = "scalar" THEN "NumpyScalar"
    ELSE IF opt_enabled(o, SERIALIZE_NUMPY) /\ ob_type.numpy = "array" THEN "NumpyArray"
    ELSE "Unknown"

\* the int test by the type's flags, which the bool type carries too
pyobject_to_obtype_int_by_flag(ob_type, has_fields, o) ==
    IF ob_type.exact = "str" THEN "Str"
    ELSE IF ob_type.base = "long" /\ ob_type.exact # "other" THEN "Int"
    ELSE IF ob_type.exact = "bool" THEN "Bool"
    ELSE IF ob_type.exact = "none" THEN "None"
    ELSE IF ob_type.exact = "float" THEN "Float"
    ELSE IF ob_type.exact = "list" THEN "List"
    ELSE IF ob_type.exact = "dict" THEN "Dict"
    ELSE IF ob_type.exact = "datetime" /\ opt_disabled(o, PASSTHROUGH_DATETIME)
    THEN "Datetime"
    ELSE pyobject_to_obtype_unlikely(ob_type, has_fields, o)

pyobject_to_obtype(ob_type, has_fields, o) ==
    IF ob_type.exact = "str" THEN "Str"
    ELSE IF ob_type.exact = "int" THEN "Int"
    ELSE IF ob_type.exact = "bool" THEN "Bool"
    ELSE IF ob_type.exact = "none" THEN "None"
    ELSE IF ob_type.exact = "float" THEN "Float"
    ELSE IF ob_type.exact = "list" THEN "List"
    ELSE IF ob_type.exact = "dict" THEN "Dict"
    ELSE IF ob_type.exact = "datetime" /\ opt_disabled(o, PASSTHROUGH_DATETIME)
    THEN "Datetime"
    ELSE pyobject_to_obtype_unlikely(ob_type, has_fields, o)

\* a classifier that notes on the type what it found
classify_call_marking(dicts, ty, o) ==
    LET tag == pyobject_to_obtype(TypeObjs[ty], dicts[ty], o)
    IN  [tag |-> tag,
         tp_dict |-> IF tag = "Unknown" THEN [dicts EXCEPT ![ty] = TRUE] ELSE dicts]

\* one call of pyobject_to_obtype on a value of type ty: the tag, and the
\* dicts of the types as the call leaves them
classify_call(dicts, ty, o) ==
    [tag |-> pyobject_to_obtype(TypeObjs[ty], dicts[ty], o), tp_dict |-> dicts]

NoCall == [op |-> "none"]

InitTypes ==
    /\ tp_dict = [ty \in TypeIds |-> FALSE]
    /\ classLog = [last |-> NoCall, prev |-> NoCall]

\* KeyCache::new() in a context nobody has used yet
InitCache ==
    /\ key_map = KeyCache_new
    /\ strs = [p \in StrIds |-> NoStr]
    /\ held = [p \in StrIds |-> 0]
    /\ cacheDropped = FALSE
    /\ badRef = FALSE
    /\ seen = [k \in KeyIds |-> 0]
    /\ nGets = 0
    /\ lastKey = [op |-> "none"]
    /\ firstVal = [d \in DocIds |-> NoResult]

InitState ==
    /\ \E o \in OptSet :
         /\ state = SerializerState_new(o)
         /\ opts0 = o
    /\ nRec = 0
    /\ nDef = 0
    /\ build = "release"
    /\ pool = [ptr |-> 0, capacity |-> 0]
    /\ live = {}
    /\ dropped = FALSE
    /\ aborted = FALSE
    /\ badFree = FALSE
    /\ everFailed = FALSE
    /\ last = PoolIdle
    /\ py_gil_disabled = FALSE
    /\ InitCache
    /\ InitRegistry
    /\ InitTypes

\* SerializerState::new(opts): a fresh state for a top-level encode call
New ==
    /\ \E o \in OptSet :
         /\ state' = SerializerState_new(o)
         /\ opts0' = o
    /\ nRec' = 0
    /\ nDef' = 0
    /\ UNCHANGED poolVars
    /\ UNCHANGED cacheVars
    /\ UNCHANGED internVars
    /\ UNCHANGED regVars
    /\ UNCHANGED classVars

CopyForRecursiveCall ==
    /\ nRec < MaxCalls
    /\ state' = copy_for_recursive_call(state)
    /\ nRec' = nRec + 1
    /\ UNCHANGED <<nDef, opts0>>
    /\ UNCHANGED poolVars
    /\ UNCHANGED cacheVars
    /\ UNCHANGED internVars
    /\ UNCHANGED regVars
    /\ UNCHANGED classVars

CopyForDefaultCall ==
    /\ nDef < MaxCalls
    /\ state' = copy_for_default_call(state)
    /\ nDef' = nDef + 1
    /\ UNCHANGED <<nRec, opts0>>
    /\ UNCHANGED poolVars
    /\ UNCHANGED cacheVars
    /\ UNCHANGED internVars
    /\ UNCHANGED regVars
    /\ UNCHANGED classVars

NextState ==
    \/ New
    \/ CopyForRecursiveCall
    \/ CopyForDefaultCall

SpecState == InitState /\ [][NextState]_vars

(***************************************************************************)
(* The flag word on its way through an encode call: the state is made by   *)
(* new(), copied for every container entered and every default call, and   *)
(* the values met are classified under opts() of the state at hand.        *)
(***************************************************************************)
EncodeRecursiveCall ==
    /\ nRec < MaxCalls
    /\ state' = copy_for_recursive_call(state)
    /\ nRec' = nRec + 1
    /\ classLog' = [last |-> NoCall, prev |-> NoCall]
    /\ UNCHANGED <<nDef, opts0, tp_dict>>
    /\ UNCHANGED poolVars
    /\ UNCHANGED cacheVars
    /\ UNCHANGED internVars
    /\ UNCHANGED regVars

EncodeDefaultCall ==
    /\ nDef < MaxCalls
    /\ state' = copy_for_default_call(state)
    /\ nDef' = nDef + 1
    /\ classLog' = [last |-> NoCall, prev |-> NoCall]
    /\ UNCHANGED <<nRec, opts0, tp_dict>>
    /\ UNCHANGED poolVars
    /\ UNCHANGED cacheVars
    /\ UNCHANGED internVars
    /\ UNCHANGED regVars

\* the values of a container are classified, one of every type, under
\* opts() of the state; ref is what the flags given to new() would give
ClassifyUnderState ==
    /\ classLog.last = NoCall
    /\ classLog' =
         [prev |-> NoCall,
          last |-> [op |-> "classify",
                    tags |-> [p \in DOMAIN FlagPlacements |-> [ty \in TypeIds |->
                                classify_call(tp_dict, ty,
                                              flags_of(opts(state), FlagPlacements[p])).tag]],
                    ref |-> [p \in DOMAIN FlagPlacements |-> [ty \in TypeIds |->
                                classify_call(tp_dict, ty,
                                              flags_of(Word(opts0), FlagPlacements[p])).tag]]]]
    /\ UNCHANGED tp_dict
    /\ UNCHANGED stateVars
    /\ UNCHANGED poolVars
    /\ UNCHANGED cacheVars
    /\ UNCHANGED internVars
    /\ UNCHANGED regVars

NextOpts ==
    \/ EncodeRecursiveCall
    \/ EncodeDefaultCall
    \/ ClassifyUnderState

SpecOpts == InitState /\ [][NextOpts]_vars

(***************************************************************************)
(* The decode side: one ParseBuffer, its callers and its drop.             *)
(***************************************************************************)
InitDecode ==
    /\ state = SerializerState_new(0)
    /\ opts0 = 0
    /\ nRec = 0
    /\ nDef = 0
    /\ build \in {"debug", "release"}
    /\ pool = ParseBuffer_new
    /\ live = {}
    /\ dropped = FALSE
    /\ aborted = FALSE
    /\ badFree = FALSE
    /\ everFailed = FALSE
    /\ last = PoolIdle
    /\ py_gil_disabled = FALSE
    /\ InitCache
    /\ InitRegistry
    /\ InitTypes

\* a direct ParseBuffer::ensure_capacity(required)
EnsureCapacity ==
    /\ ~dropped /\ ~aborted
    /\ \E required \in ReqSizes, m \in {0} \cup Addrs :
         LET e == ensure_capacity(pool, required, m, build)
         IN  /\ IF e.malloc THEN m \in MallocResults(live \ SeqToSet(e.freed)) ELSE m = 0
             /\ pool' = e.pool
             /\ live' = HeapAfter(live, e.freed, IF e.malloc THEN m ELSE 0)
             /\ badFree' = (badFree \/ FreesUnallocated(live, e.freed))
             /\ everFailed' = (everFailed \/ e.failed)
             /\ aborted' = e.panic
             /\ last' = [op |-> "ensure", required |-> required,
                         ensured |-> e.pool, ret |-> e.ret,
                         freed |-> e.freed, malloc |-> e.malloc, failed |-> e.failed]
    /\ UNCHANGED <<build, dropped>>
    /\ UNCHANGED stateVars
    /\ UNCHANGED cacheVars
    /\ UNCHANGED internVars
    /\ UNCHANGED regVars
    /\ UNCHANGED classVars

\* one decode call through the pool, for an input length of lens whose parse
\* yields one of docs or an error, with container allocations failing only
\* if withOom
DeserializeReturn(len, m, parse, oom, r) ==
             /\ key_map' = r.kc.key_map
             \* the caller lets go of the result before its next call
             /\ strs' = ReleaseAll(r.kc.strs, r.kc.out)
             /\ IF r.malloc THEN m \in MallocResults(live \ SeqToSet(r.freed)) ELSE m = 0
             /\ pool' = r.pool
             /\ live' = HeapAfter(live, r.freed, IF r.malloc THEN m ELSE 0)
             /\ badFree' = (badFree \/ FreesUnallocated(live, r.freed))
             /\ everFailed' = (everFailed \/ r.failed)
             /\ aborted' = (r.panic \/ r.result.kind = "crash")
             /\ last' = [op |-> "deserialize",
                         len |-> len, required |-> r.required,
                         ensured |-> r.ensured, ret |-> r.ret,
                         freed |-> r.freed, malloc |-> r.malloc, failed |-> r.failed,
                         parserCalled |-> r.parserCalled,
                         parse |-> IF r.parserCalled THEN parse
                                   ELSE [ok |-> FALSE, doc |-> 0, msg |-> <<>>, pos |-> 0],
                         oom |-> IF r.parserCalled THEN oom ELSE {},
                         trace |-> r.kc.ev,
                         result |-> r.result]

DeserializeCall(lens, docs, withOom) ==
    /\ ~dropped /\ ~aborted
    /\ \E len \in lens, m \in {0} \cup Addrs :
       \E parse \in {o \in ParserOutcomes(len) : o.ok => o.doc \in docs} :
       \E oom \in (IF withOom THEN OomChoices(parse) ELSE {{}}) :
       \E u \in (IF oom = {} THEN {"returns"} ELSE UBOutcomes) :
         DeserializeReturn(len, m, parse, oom,
                           deserialize(pool, len, m, parse, oom, u, build,
                                       KeyState(key_map, strs, py_gil_disabled)))
    /\ UNCHANGED <<build, dropped>>
    /\ UNCHANGED stateVars
    /\ UNCHANGED <<py_gil_disabled, held, cacheDropped, badRef, seen, nGets, lastKey>>

\* decode calls of every input length; the documents do not touch the pool
PoolDocs == {1, 5}
Deserialize ==
    /\ DeserializeCall(Lens, PoolDocs, FALSE)
    /\ UNCHANGED firstVal
    /\ UNCHANGED regVars
    /\ UNCHANGED classVars

\* Drop for ParseBuffer
DropPool ==
    /\ ~dropped /\ ~aborted
    /\ LET fs == ParseBuffer_drop(pool)
       IN  /\ live' = HeapAfter(live, fs, 0)
           /\ badFree' = (badFree \/ FreesUnallocated(live, fs))
           /\ last' = [op |-> "drop", freed |-> fs]
    /\ dropped' = TRUE
    /\ UNCHANGED <<build, pool, aborted, everFailed>>
    /\ UNCHANGED stateVars
    /\ UNCHANGED cacheVars
    /\ UNCHANGED internVars
    /\ UNCHANGED regVars
    /\ UNCHANGED classVars

NextDecode ==
    \/ EnsureCapacity
    \/ Deserialize
    \/ DropPool

SpecDecode == InitDecode /\ [][NextDecode]_vars

(***************************************************************************)
(* Materialization: decode calls of short inputs, every document, and      *)
(* container allocations that may fail.                                    *)
(***************************************************************************)
ShortLens == {1, 24, 700}
\* the documents materialized with failing allocations
OomDocs == 1..9
Materialize ==
    /\ DeserializeCall(ShortLens, OomDocs, TRUE)
    /\ UNCHANGED firstVal
    /\ UNCHANGED regVars
    /\ UNCHANGED classVars

NextMaterialize ==
    \/ Materialize

SpecMaterialize == InitDecode /\ [][NextMaterialize]_vars

(***************************************************************************)
(* Decode calls through one context whose allocations succeed: every       *)
(* document, in any order, the key cache carried from call to call.        *)
(***************************************************************************)
InternLens == {700}
\* the documents with lists and dicts to populate
KeyDocs == {5, 8, 9, 10, 11, 12, 13}
\* how many of them one run decodes, each any number of times
MaxDecoded == 3
Decoded == {d \in DocIds : firstVal[d] # NoResult}
InternDocs == IF Cardinality(Decoded) < MaxDecoded THEN KeyDocs ELSE Decoded

Intern ==
    /\ DeserializeCall(InternLens, InternDocs, FALSE)
    /\ firstVal' = IF last'.parserCalled /\ last'.parse.ok
                       /\ firstVal[last'.parse.doc] = NoResult
                   THEN [firstVal EXCEPT ![last'.parse.doc] = last'.result]
                   ELSE firstVal
    /\ UNCHANGED regVars
    /\ UNCHANGED classVars

NextIntern ==
    \/ Intern

SpecIntern == InitDecode /\ [][NextIntern]_vars

(***************************************************************************)
(* Population: decode calls of every document, the allocations succeeding, *)
(* the key cache carried from call to call.                                *)
(***************************************************************************)
Populate ==
    /\ DeserializeCall(InternLens, DocIds, FALSE)
    /\ UNCHANGED internVars
    /\ UNCHANGED regVars
    /\ UNCHANGED classVars

NextPopulate ==
    \/ Populate

SpecPopulate == InitDecode /\ [][NextPopulate]_vars

(***************************************************************************)
(* The key cache of one context: callers interning keys and letting go of  *)
(* the handles, and the drop of the cache.                                 *)
(***************************************************************************)
InitKeyCache ==
    /\ state = SerializerState_new(0)
    /\ opts0 = 0
    /\ nRec = 0
    /\ nDef = 0
    /\ build = "release"
    /\ pool = ParseBuffer_new
    /\ live = {}
    /\ dropped = FALSE
    /\ aborted = FALSE
    /\ badFree = FALSE
    /\ everFailed = FALSE
    /\ last = PoolIdle
    /\ py_gil_disabled = FALSE
    /\ InitCache
    /\ InitRegistry
    /\ InitTypes

RECURSIVE HeldFrom(_)
HeldFrom(p) == IF p \notin StrIds THEN 0 ELSE held[p] + HeldFrom(p + 1)
HeldTotal == HeldFrom(1)

\* get_unicode_key(key_str, state) for one key of an object being decoded
GetUnicodeKey ==
    /\ ~cacheDropped
    /\ HeldTotal < MaxHeld
    /\ nGets < MaxGets
    /\ nGets' = nGets + 1
    /\ \E k \in KeyIds :
         LET r == get_unicode_key(key_map, strs, Keys[k], py_gil_disabled)
             str == KeyIdOf(r.strs[r.ret].bytes)
         IN  /\ key_map' = r.key_map
             /\ strs' = r.strs
             /\ held' = [held EXCEPT ![r.ret] = @ + 1]
             /\ badRef' = (badRef \/ r.bad)
             /\ seen' = IF seen[k] = 0 THEN [seen EXCEPT ![k] = str] ELSE seen
             /\ lastKey' = [op |-> "get", key |-> k, ret |-> r.ret, hit |-> r.hit,
                            evicted |-> r.evicted, str |-> str,
                            first |-> IF seen[k] = 0 THEN str ELSE seen[k],
                            before |-> key_map[CacheIndex(HashTable[k])]]
    /\ UNCHANGED <<py_gil_disabled, cacheDropped>>
    /\ UNCHANGED stateVars
    /\ UNCHANGED poolVars
    /\ UNCHANGED internVars
    /\ UNCHANGED regVars
    /\ UNCHANGED classVars

\* a caller lets go of a handle it was given
ReleaseHandle ==
    /\ \E p \in StrIds :
         /\ held[p] > 0
         /\ strs' = Py_DECREF(strs, p)
         /\ badRef' = (badRef \/ strs[p].rc = 0)
         /\ held' = [held EXCEPT ![p] = @ - 1]
    /\ lastKey' = [op |-> "release"]
    /\ UNCHANGED <<py_gil_disabled, key_map, cacheDropped, seen, nGets>>
    /\ UNCHANGED stateVars
    /\ UNCHANGED poolVars
    /\ UNCHANGED internVars
    /\ UNCHANGED regVars
    /\ UNCHANGED classVars

\* Drop for KeyCache
DropCache ==
    /\ ~cacheDropped
    /\ LET r == KeyCache_drop(key_map, strs)
       IN  /\ key_map' = r.key_map
           /\ strs' = r.strs
           /\ badRef' = (badRef \/ r.bad)
    /\ cacheDropped' = TRUE
    /\ lastKey' = [op |-> "drop"]
    /\ UNCHANGED <<py_gil_disabled, held, seen, nGets>>
    /\ UNCHANGED stateVars
    /\ UNCHANGED poolVars
    /\ UNCHANGED internVars
    /\ UNCHANGED regVars
    /\ UNCHANGED classVars

NextKeyCache ==
    \/ GetUnicodeKey
    \/ ReleaseHandle
    \/ DropCache

SpecKeyCache == InitKeyCache /\ [][NextKeyCache]_vars

(***************************************************************************)
(* Threads calling into the extension: each call looks its context up      *)
(* (get_current_state) and then decodes with it.  A build with the         *)
(* interpreter lock runs one thread of an interpreter at a time; a build   *)
(* with cfg(Py_GIL_DISABLED) runs them all.                                *)
(***************************************************************************)
InitThreads ==
    /\ state = SerializerState_new(0)
    /\ opts0 = 0
    /\ nRec = 0
    /\ nDef = 0
    /\ build = "release"
    /\ pool = ParseBuffer_new
    /\ live = {}
    /\ dropped = FALSE
    /\ aborted = FALSE
    /\ badFree = FALSE
    /\ everFailed = FALSE
    /\ last = PoolIdle
    /\ py_gil_disabled \in BOOLEAN
    /\ InitCache
    /\ InitRegistry
    /\ InitTypes

\* the address Box::new gives the next context
NextBox == 1 + Cardinality({m \in Modules : interpreter_states[m] # 0})

\* a thread running in interpreter i calls a function of the module
CallEnter(t, i) ==
    /\ thr[t].pc = "idle"
    /\ regLog.calls < MaxLookups
    /\ py_gil_disabled \/ gil[i] = 0
    /\ gil' = IF py_gil_disabled THEN gil ELSE [gil EXCEPT ![i] = t]
    /\ thr' = [thr EXCEPT ![t] = [ThreadIdle EXCEPT !.pc = "lookup", !.interp = i,
                                                   !.prev = cached[t].id]]
    /\ regLog' = [regLog EXCEPT !.calls = @ + 1]
    /\ UNCHANGED <<interpreter_states, guard, cached>>

\* get_current_state up to the import: the per-thread slot answers, or the
\* module is imported for the registry
GetCurrentState(t) ==
    /\ thr[t].pc = "lookup"
    /\ IF cache_hit(cached[t], thr[t].interp)
       THEN /\ thr' = [thr EXCEPT ![t].pc = "ready", ![t].state = cached[t].state]
            /\ regLog' = [regLog EXCEPT !.returned[thr[t].interp] = @ \cup {cached[t].state}]
       ELSE /\ thr' = [thr EXCEPT ![t].pc = "lock",
                                  ![t].module = PyImport_ImportModule(thr[t].interp)]
            /\ UNCHANGED regLog
    /\ UNCHANGED <<interpreter_states, guard, cached, gil>>

\* get_or_init_state: states.lock()
LockRegistry(t) ==
    /\ thr[t].pc = "lock"
    /\ guard = 0
    /\ guard' = t
    /\ thr' = [thr EXCEPT ![t].pc = "entry", ![t].locked = TRUE]
    /\ regLog' = [regLog EXCEPT
                    !.locks[t][thr[t].interp] = @ + 1,
                    !.raced[thr[t].interp] =
                        @ \/ \E u \in Threads \ {t} :
                                 thr[u].pc = "lock" /\ thr[u].interp = thr[t].interp]
    /\ UNCHANGED <<interpreter_states, cached, gil>>

\* get_or_init_state: entry(module_key).or_insert_with(...) and the return,
\* which drops the guard
EntryOrInsert(t) ==
    /\ thr[t].pc = "entry"
    /\ guard = t
    /\ LET r == or_insert_with(interpreter_states, thr[t].module, NextBox)
       IN  /\ interpreter_states' = r.map
           /\ thr' = [thr EXCEPT ![t].pc = "update", ![t].state = r.ptr]
           /\ regLog' = [regLog EXCEPT !.created[thr[t].interp] =
                                          IF r.created THEN @ + 1 ELSE @]
    /\ guard' = 0
    /\ UNCHANGED <<cached, gil>>

\* get_current_state after get_or_init_state: the slot is set
UpdateCache(t) ==
    /\ thr[t].pc = "update"
    /\ cached' = [cached EXCEPT ![t] = [id |-> thr[t].interp, state |-> thr[t].state]]
    /\ thr' = [thr EXCEPT ![t].pc = "ready"]
    /\ regLog' = [regLog EXCEPT !.returned[thr[t].interp] = @ \cup {thr[t].state}]
    /\ UNCHANGED <<interpreter_states, guard, gil>>

\* deserialize takes &mut parse_buffer of the context and parses into it
BeginDecode(t) ==
    /\ thr[t].pc = "ready"
    /\ thr' = [thr EXCEPT ![t].pc = "decoding"]
    /\ UNCHANGED <<interpreter_states, guard, cached, gil, regLog>>

\* deserialize returns and the call leaves the extension
EndDecode(t) ==
    /\ thr[t].pc = "decoding"
    /\ thr' = [thr EXCEPT ![t].pc = "idle"]
    /\ gil' = [i \in Interps |-> IF gil[i] = t THEN 0 ELSE gil[i]]
    /\ UNCHANGED <<interpreter_states, guard, cached, regLog>>

NextThreads ==
    /\ \E t \in Threads :
         \/ \E i \in Interps : CallEnter(t, i)
         \/ GetCurrentState(t)
         \/ LockRegistry(t)
         \/ EntryOrInsert(t)
         \/ UpdateCache(t)
         \/ BeginDecode(t)
         \/ EndDecode(t)
    /\ UNCHANGED stateVars
    /\ UNCHANGED poolVars
    /\ UNCHANGED cacheVars
    /\ UNCHANGED internVars
    /\ UNCHANGED classVars

SpecThreads == InitThreads /\ [][NextThreads]_vars

(***************************************************************************)
(* The classifier: calls of pyobject_to_obtype on values of every type     *)
(* under every flag word, between which the host program may decorate a    *)
(* class of its own as a dataclass (dataclasses.dataclass(cls) sets the     *)
(* fields marker in the dict of cls and returns cls itself).               *)
(***************************************************************************)
Classify ==
    /\ \E ty \in TypeIds, o \in OptSets :
         LET r == classify_call(tp_dict, ty, o)
         IN  /\ tp_dict' = r.tp_dict
             /\ classLog' = [prev |-> classLog.last,
                             last |-> [op |-> "classify", type |-> ty, opts |-> o,
                                       has_fields |-> tp_dict[ty], tag |-> r.tag]]
    /\ UNCHANGED stateVars
    /\ UNCHANGED poolVars
    /\ UNCHANGED cacheVars
    /\ UNCHANGED internVars
    /\ UNCHANGED regVars

DecorateClass ==
    /\ \E ty \in HostClasses :
         /\ ~tp_dict[ty]
         /\ tp_dict' = [tp_dict EXCEPT ![ty] = TRUE]
    /\ UNCHANGED classLog
    /\ UNCHANGED stateVars
    /\ UNCHANGED poolVars
    /\ UNCHANGED cacheVars
    /\ UNCHANGED internVars
    /\ UNCHANGED regVars

NextClassify ==
    \/ Classify
    \/ DecorateClass

SpecClassify == InitKeyCache /\ [][NextClassify]_vars

(***************************************************************************)
(* The tags: one call of pyobject_to_obtype on a value of any type under   *)
(* any of the sixteen flag words, any of the user's classes decorated.     *)
(***************************************************************************)
ClassifyTag ==
    /\ \E ty \in TypeIds, o \in AllOpts :
         LET r == classify_call(tp_dict, ty, o)
         IN  /\ tp_dict' = r.tp_dict
             /\ classLog' = [prev |-> NoCall,
                             last |-> [op |-> "classify", type |-> ty, opts |-> o,
                                       has_fields |-> tp_dict[ty], tag |-> r.tag]]
    /\ UNCHANGED stateVars
    /\ UNCHANGED poolVars
    /\ UNCHANGED cacheVars
    /\ UNCHANGED internVars
    /\ UNCHANGED regVars

DecorateUserClass ==
    /\ \E ty \in UserClasses :
         /\ ~tp_dict[ty]
         /\ tp_dict' = [tp_dict EXCEPT ![ty] = TRUE]
    /\ UNCHANGED classLog
    /\ UNCHANGED stateVars
    /\ UNCHANGED poolVars
    /\ UNCHANGED cacheVars
    /\ UNCHANGED internVars
    /\ UNCHANGED regVars

NextTags ==
    \/ ClassifyTag
    \/ DecorateUserClass

SpecTags == InitKeyCache /\ [][NextTags]_vars

(***************************************************************************)
(* Properties of the serializer state (SpecState).                         *)
(***************************************************************************)

\* C1: from a fresh state, n consecutive copy_for_recursive_call() make
\* recursion_limit() true for n = 255 and false for every n in 0..254.
C1_RecursionLimitAt255 ==
    (nDef = 0 /\ nRec <= 255) => (recursion_limit(state) <=> nRec = 255)

C1_Witness == nDef = 0 /\ nRec = 255 /\ recursion_limit(state)

\* C2: the 256th copy_for_recursive_call() from a fresh state does not wrap:
\* the recursion counter is still 255 and recursion_limit() still true.
C2_NoWrapAt256 ==
    (nDef = 0 /\ nRec = 256) => (RecursionCount(state) = 255 /\ recursion_limit(state))

\* C3: once copy_for_default_call() has been applied 255 times the default
\* counter is 255 and stays there: default_calls_limit() is true from then on.
C3_DefaultSaturates ==
    nDef >= 255 => (DefaultCount(state) = 255 /\ default_calls_limit(state))

\* C4: copy_for_default_call() keeps the flags and the recursion counter, and
\* copy_for_recursive_call() keeps the flags and the default counter, from
\* every state.
C4_Frame ==
    [][ /\ CopyForDefaultCall =>
             /\ OptFlags(state') = OptFlags(state)
             /\ RecursionCount(state') = RecursionCount(state)
        /\ CopyForRecursiveCall =>
             /\ OptFlags(state') = OptFlags(state)
             /\ DefaultCount(state') = DefaultCount(state) ]_vars

(***************************************************************************)
(* Properties of the buffer pool and the decode call (SpecDecode).         *)
(***************************************************************************)
\* C5: whenever ensure_capacity(required) returns a non-null pointer the
\* capacity it returns is at least required.
C5_CapacityAtLeastRequired ==
    (last.op \in {"ensure", "deserialize"} /\ ~aborted /\ last.ret.ptr # 0)
        => last.ret.capacity >= last.required

\* C6: the pool's stored capacity never decreases, whether calls succeed or
\* fail to allocate.
C6_CapacityNeverDecreases ==
    [][pool'.capacity >= pool.capacity]_vars

\* C7: of two decode calls in a row, the second input no longer than the
\* first, the second frees nothing, allocates nothing and leaves the pool's
\* pointer and capacity as the first left them.
C7_SecondCallReuses ==
    [][ (/\ last.op = "deserialize" /\ last'.op = "deserialize"
         /\ ~aborted'
         /\ last'.len <= last.len)
        => (last'.freed = <<>> /\ ~last'.malloc /\ pool' = pool) ]_vars

\* C8: a decode call whose ensure_capacity fails to allocate returns an error
\* without running the parser and leaves an empty pool; after any such
\* failure the pool never names a freed block, no block is freed twice and
\* no freed block is handed out, through every later call and the drop.
C8_FailedAllocLeavesPoolValid ==
    /\ (last.op = "deserialize" /\ last.failed) =>
           /\ last.result.kind = "Err"
           /\ ~last.parserCalled
           /\ pool = ParseBuffer_new
    /\ (everFailed /\ ~aborted) =>
           /\ ~badFree
           /\ (~dropped /\ pool.ptr # 0) => pool.ptr \in live
           /\ (last.op \in {"ensure", "deserialize"} /\ last.ret.ptr # 0)
                  => last.ret.ptr \in live

C8_Witness ==
    /\ everFailed
    /\ dropped
    /\ last.op = "drop"
    /\ last.freed # <<>>
    /\ ~badFree

\* C9: when the parser rejects the input the call returns an error with the
\* parser's message and position, and the pool still holds the buffer
\* ensure_capacity returned, unreleased.
C9_ParseErrorKeepsBuffer ==
    (last.op = "deserialize" /\ last.parserCalled /\ ~last.parse.ok) =>
        /\ last.result.kind = "Err"
        /\ last.result.msg = last.parse.msg
        /\ last.result.pos = last.parse.pos
        /\ pool = last.ensured
        /\ pool.ptr = last.ret.ptr
        /\ last.ret.ptr \in live

C9_Witness ==
    /\ last.op = "deserialize"
    /\ last.parserCalled
    /\ ~last.parse.ok
    /\ last.parse.pos > 0
    /\ last.malloc
    /\ pool.capacity > MINIMUM_BUFFER_CAPACITY

(***************************************************************************)
(* Properties of materialization (SpecMaterialize).                        *)
(***************************************************************************)

\* C10: if the allocation of a list or dict fails, at the root or at any
\* depth, the decode call fails with an out-of-memory error.
C10_ContainerOomFails ==
    (last.op = "deserialize" /\ last.oom # {}) => last.result.kind = "Err"

(***************************************************************************)
(* Properties of the key cache (SpecKeyCache).                             *)
(***************************************************************************)
\* the slots that hold the handle p
SlotsOf(p) == {i \in Slots : key_map[i].ptr = p}

\* C11: interning a key longer than 64 bytes leaves every entry of the key
\* cache as it was and returns a string object created by the call, holding
\* the key's bytes and the caller's one reference.
C11_LongKeysBypass ==
    [][ (GetUnicodeKey /\ Len(Keys[lastKey'.key]) > 64) =>
          /\ key_map' = key_map
          /\ ~lastKey'.hit
          /\ strs[lastKey'.ret].rc = 0
          /\ strs'[lastKey'.ret] = [bytes |-> Keys[lastKey'.key], rc |-> 1]
          /\ \A p \in StrIds \ {lastKey'.ret} : strs'[p] = strs[p] ]_vars

\* a long key was interned while the slot its hash names held another key
C11_Witness ==
    /\ lastKey.op = "get"
    /\ Len(Keys[lastKey.key]) > 64
    /\ key_map[CacheIndex(HashTable[lastKey.key])].ptr # 0
    /\ lastKey.before = key_map[CacheIndex(HashTable[lastKey.key])]

\* C12: get_or_insert answers with the handle of the slot only when the slot
\* held a handle and its stored hash and length are those of the key asked
\* for.
C12_HitNeedsHashAndLength ==
    (lastKey.op = "get" /\ lastKey.hit) =>
        /\ lastKey.before.ptr # 0
        /\ lastKey.before.ptr = lastKey.ret
        /\ lastKey.before.hash = HashTable[lastKey.key]
        /\ lastKey.before.len = Len(Keys[lastKey.key])

\* the 15-byte key is answered from the slot it shares with the 16-byte key
\* of the same hash, after having replaced it there
C12_Witness ==
    /\ lastKey.op = "get"
    /\ lastKey.hit
    /\ Len(Keys[lastKey.key]) = 15
    /\ seen[6] # 0

\* C13: a call with a key of at most 64 bytes returns a string equal to the
\* one every earlier call with the same key returned, whatever was asked for
\* in between.
C13_SameKeySameString ==
    (lastKey.op = "get" /\ Len(Keys[lastKey.key]) <= 64) => lastKey.str = lastKey.first

\* C28: a call with a key of at most 64 bytes returns a handle to a string
\* whose bytes are the bytes of the key, whatever the cache held before the
\* call, an entry of another key with the same hash and length included.
C28_HandleDenotesKey ==
    (lastKey.op = "get" /\ Len(Keys[lastKey.key]) <= 64) =>
        /\ lastKey.str = lastKey.key
        /\ held[lastKey.ret] > 0 => strs[lastKey.ret].bytes = Keys[lastKey.key]

\* C14: the cache holds one reference for each slot that is occupied and no
\* other: every string object's count is the handles callers hold plus the
\* slots that name it, no count is touched after the object is gone, and
\* after the drop no slot names an object.
C14_OneReferencePerSlot ==
    /\ ~badRef
    /\ \A p \in StrIds :
         /\ Cardinality(SlotsOf(p)) <= 1
         /\ strs[p].rc = held[p] + Cardinality(SlotsOf(p))
    /\ cacheDropped => \A i \in Slots : key_map[i].ptr = 0

\* the cache was dropped after an eviction, while a caller still holds a handle
C14_Witness ==
    /\ cacheDropped
    /\ lastKey.op = "drop"
    /\ \E p \in StrIds : held[p] > 0 /\ strs[p].rc = held[p]
    /\ \E k \in {3, 4} : seen[k] # 0
    /\ seen[5] # 0

(***************************************************************************)
(* Properties of decode calls through one context (SpecIntern).            *)
(***************************************************************************)
\* the last step was a decode call that returned a value for document d
Decodes(d) ==
    /\ last.op = "deserialize"
    /\ last.parserCalled
    /\ last.parse.ok
    /\ last.parse.doc = d
    /\ last.result.kind = "Ok"

MaxOf(S) == IF S = {} THEN 0 ELSE CHOOSE x \in S : \A y \in S : y <= x

\* nesting depth of a document tree and of a native value: 0 for a scalar
RECURSIVE TreeDepth(_)
TreeDepth(t) ==
    CASE t[1] = "arr" -> 1 + MaxOf({TreeDepth(t[2][i]) : i \in 1..Len(t[2])})
      [] t[1] = "obj" -> 1 + MaxOf({TreeDepth(t[2][i][2]) : i \in 1..Len(t[2])})
      [] OTHER -> 0

RECURSIVE NativeDepth(_)
NativeDepth(v) ==
    CASE v[1] = "list" -> 1 + MaxOf({NativeDepth(v[2][i]) : i \in 1..Len(v[2])})
      [] v[1] = "dict" -> 1 + MaxOf({NativeDepth(v[2][i][2]) : i \in 1..Len(v[2])})
      [] OTHER -> 0

\* the native scalar of a scalar node
ScalarOf(t) ==
    CASE t[1] = "str" -> <<"str", t[2]>>
      [] t[1] = "uint" -> <<"int", t[2]>>
      [] t[1] = "int" -> <<"int", t[2]>>
      [] t[1] = "real" -> <<"float", t[2]>>
      [] t[1] = "true" -> <<"True">>
      [] t[1] = "false" -> <<"False">>
      [] t[1] = "null" -> <<"None">>

\* v has the shape of t, entry for entry
RECURSIVE ExactShape(_, _)
ExactShape(t, v) ==
    CASE t[1] = "arr" ->
            /\ v[1] = "list"
            /\ Len(v[2]) = Len(t[2])
            /\ \A i \in 1..Len(t[2]) : ExactShape(t[2][i], v[2][i])
      [] t[1] = "obj" ->
            /\ v[1] = "dict"
            /\ Len(v[2]) = Len(t[2])
            /\ \A i \in 1..Len(t[2]) : ExactShape(t[2][i][2], v[2][i][2])
      [] OTHER -> v = ScalarOf(t)

\* v has the shape of t but for the pairs of an object that were stored
\* under one key: a dict has an entry or more, never more than the pairs,
\* and each entry holds the value of one of the pairs
RECURSIVE DictShape(_, _)
DictShape(t, v) ==
    CASE t[1] = "arr" ->
            /\ v[1] = "list"
            /\ Len(v[2]) = Len(t[2])
            /\ \A i \in 1..Len(t[2]) : DictShape(t[2][i], v[2][i])
      [] t[1] = "obj" ->
            /\ v[1] = "dict"
            /\ Len(v[2]) <= Len(t[2])
            /\ (Len(t[2]) > 0 => Len(v[2]) > 0)
            /\ \A i \in 1..Len(v[2]) :
                 \E j \in 1..Len(t[2]) : DictShape(t[2][j][2], v[2][i][2])
      [] OTHER -> v = ScalarOf(t)

PairsOf(ps, k) == {j \in 1..Len(ps) : ps[j][1] = k}

\* v is the value of t, each dict holding for every key of its object the
\* value of the last pair with that key
RECURSIVE LastWins(_, _)
LastWins(t, v) ==
    CASE t[1] = "arr" ->
            /\ v[1] = "list"
            /\ Len(v[2]) = Len(t[2])
            /\ \A i \in 1..Len(t[2]) : LastWins(t[2][i], v[2][i])
      [] t[1] = "obj" ->
            /\ v[1] = "dict"
            /\ \A j \in 1..Len(t[2]) :
                 \E i \in 1..Len(v[2]) :
                     /\ v[2][i][1] = <<"str", t[2][j][1]>>
                     /\ LastWins(t[2][MaxOf(PairsOf(t[2], t[2][j][1]))][2], v[2][i][2])
      [] OTHER -> v = ScalarOf(t)

\* the object has a key in more than one pair
HasDuplicateKey(t) ==
    /\ t[1] = "obj"
    /\ \E j \in 1..Len(t[2]) : Cardinality(PairsOf(t[2], t[2][j][1])) > 1

HasState(t) == thr[t].pc \in {"ready", "decoding"}

\* C17: a context is built at most once for an interpreter, and only once a
\* lookup for it has reached the registry; every lookup for the interpreter,
\* on whichever thread and however the lookups interleave, returns that one
\* context.
C17_OneContextPerSession ==
    \A i \in Interps :
        /\ regLog.created[i] <= 1
        /\ regLog.returned[i] \subseteq {interpreter_states[PyImport_ImportModule(i)]} \ {0}
        /\ (regLog.created[i] = 1 =>
                \E t \in Threads : regLog.locks[t][i] > 0)
        /\ \A j \in Interps \ {i} :
              regLog.returned[i] \cap regLog.returned[j] = {}

\* two threads looked the same interpreter up at once, one waiting for the
\* mutex the other held, and both have its context
C17_Witness ==
    \E i \in Interps :
        /\ regLog.raced[i]
        /\ regLog.created[i] = 1
        /\ \A t \in Threads :
              HasState(t) /\ thr[t].interp = i /\ thr[t].locked
              /\ thr[t].state = interpreter_states[PyImport_ImportModule(i)]

\* C18 as stated: a thread takes the registry mutex at most once for an
\* interpreter, on its first access of it.
C18_MutexOncePerSessionPerThread ==
    \A t \in Threads : \A i \in Interps : regLog.locks[t][i] <= 1

\* C18, amended: a lookup takes the registry mutex exactly when the
\* interpreter is not the one of the thread's previous lookup (the per-thread
\* cache is one slot), the thread's first lookup included; a lookup of the
\* interpreter of the previous lookup is served from the slot without the
\* mutex.
C18_MutexUnlessSameAsPrevious ==
    \A t \in Threads :
        HasState(t) =>
            /\ thr[t].locked = (thr[t].prev # thr[t].interp)
            /\ cached[t] = [id |-> thr[t].interp, state |-> thr[t].state]

\* a thread that went from one interpreter to another and back has taken the
\* mutex twice for the first, and has then been served from its slot
C18_Witness ==
    \E t \in Threads :
        /\ HasState(t)
        /\ ~thr[t].locked
        /\ thr[t].prev = thr[t].interp
        /\ regLog.locks[t][thr[t].interp] = 1

\* C29: on every thread, whatever interpreters it has switched between, the
\* context a lookup returns is the one the registry holds for the current
\* interpreter; the per-thread slot's id and pointer are of one interpreter,
\* and the pointer is not null when the id is not -1.
C29_SlotAndAnswerOfCurrentSession ==
    \A t \in Threads :
        /\ cached[t].id # 0 - 1 =>
              /\ cached[t].id \in Interps
              /\ cached[t].state # 0
              /\ cached[t].state = interpreter_states[PyImport_ImportModule(cached[t].id)]
        /\ HasState(t) =>
              /\ thr[t].state # 0
              /\ thr[t].state = interpreter_states[PyImport_ImportModule(thr[t].interp)]

\* a thread whose slot was of another interpreter has the context of the
\* interpreter it runs in now, and both interpreters have a context
C29_Witness ==
    \E t \in Threads :
        /\ HasState(t)
        /\ thr[t].prev \in Interps \ {thr[t].interp}
        /\ cached[t].id = thr[t].interp
        /\ interpreter_states[PyImport_ImportModule(thr[t].prev)]
             \notin {0, thr[t].state}

\* C30: two different interpreters never get one context, from the registry
\* or from a per-thread slot, over any creations and lookups: the contexts
\* the registry holds for two interpreters differ, the contexts any lookups
\* returned for two interpreters differ, and so do two filled slots of
\* different interpreter ids.
C30_SessionsNeverShareAContext ==
    /\ \A i, j \in Interps :
          i # j =>
            /\ regLog.returned[i] \cap regLog.returned[j] = {}
            /\ interpreter_states[PyImport_ImportModule(i)] # 0 =>
                  interpreter_states[PyImport_ImportModule(i)]
                      # interpreter_states[PyImport_ImportModule(j)]
    /\ \A t, u \in Threads :
          /\ (HasState(t) /\ HasState(u) /\ thr[t].interp # thr[u].interp) =>
                thr[t].state # thr[u].state
          /\ (cached[t].id # 0 - 1 /\ cached[u].id # 0 - 1
                                    /\ cached[t].id # cached[u].id) =>
                cached[t].state # cached[u].state

\* two threads hold the contexts of two interpreters at once
C30_Witness ==
    \E t, u \in Threads :
        /\ HasState(t) /\ HasState(u)
        /\ thr[t].interp # thr[u].interp
        /\ thr[t].state # 0 /\ thr[u].state # 0
        /\ regLog.created[thr[t].interp] = 1 /\ regLog.created[thr[u].interp] = 1

\* C19: no two decode calls are in flight with one context, whether the
\* build has the interpreter lock or not.
C19_OneDecodeInFlight ==
    \A t \in Threads : \A u \in Threads \ {t} :
        (thr[t].pc = "decoding" /\ thr[u].pc = "decoding") => thr[t].state # thr[u].state

(***************************************************************************)
(* Properties of the classifier (SpecClassify).                            *)
(***************************************************************************)
\* the last two calls classified values of one type under one flag word
SameTypeAndFlags ==
    /\ classLog.last.op = "classify"
    /\ classLog.prev.op = "classify"
    /\ classLog.last.type = classLog.prev.type
    /\ classLog.last.opts = classLog.prev.opts

\* a call (a step that logs one) leaves the types, the context and the flags
\* as they were
ClassifyChangesNothing ==
    [][classLog' # classLog =>
         UNCHANGED <<tp_dict, stateVars, poolVars, cacheVars, regVars>>]_vars

ExactTag ==
    [str |-> "Str", int |-> "Int", bool |-> "Bool", none |-> "None",
     float |-> "Float", list |-> "List", dict |-> "Dict"]

\* C21: a value of exactly the built-in str, int, bool, None, float, list or
\* dict type is classified Str, Int, Bool, None, Float, List or Dict under
\* every flag word, and a value of exactly the datetime type is classified
\* Datetime if and only if the flag word does not ask for datetime passthrough.
C21_ExactBuiltinTags ==
    classLog.last.op = "classify" =>
        LET c == classLog.last
            t == TypeObjs[c.type]
        IN  /\ t.exact \in DOMAIN ExactTag => c.tag = ExactTag[t.exact]
            /\ t.exact = "datetime" =>
                 (c.tag = "Datetime" <=> PASSTHROUGH_DATETIME \notin c.opts)

C21_Witness ==
    /\ classLog.last.op = "classify"
    /\ TypeObjs[classLog.last.type].exact = "bool"
    /\ classLog.last.opts = {PASSTHROUGH_DATETIME, PASSTHROUGH_SUBCLASS,
                             PASSTHROUGH_DATACLASS, SERIALIZE_NUMPY}
    /\ classLog.last.tag = "Bool"

\* a call on a value whose type is a subclass of the built-in list
ListSubclassCall ==
    /\ classLog.last.op = "classify"
    /\ TypeObjs[classLog.last.type].exact = "other"
    /\ TypeObjs[classLog.last.type].base = "list"

C23_DatetimePassthrough ==
    (classLog.last.op = "classify" /\ PASSTHROUGH_DATETIME \in classLog.last.opts) =>
        /\ classLog.last.tag \notin {"Datetime", "Date", "Time"}
        /\ TypeObjs[classLog.last.type].exact \in {"datetime", "date", "time"} =>
             classLog.last.tag = "Unknown"

C23_Witness ==
    /\ classLog.last.op = "classify"
    /\ PASSTHROUGH_DATETIME \in classLog.last.opts
    /\ TypeObjs[classLog.last.type].exact = "date"
    /\ classLog.last.tag = "Unknown"

\* the tests of the slow path in the order of the claim, each with the tag
\* it gives
SlowTests(t, f, o) ==
    << <<t.exact = "uuid", "Uuid">>,
       <<t.exact = "tuple", "Tuple">>,
       <<t.exact = "fragment", "Fragment">>,
       <<PASSTHROUGH_DATETIME \notin o /\ t.exact = "date", "Date">>,
       <<PASSTHROUGH_DATETIME \notin o /\ t.exact = "time", "Time">>,
       <<PASSTHROUGH_SUBCLASS \notin o /\ t.base = "unicode", "StrSubclass">>,
       <<PASSTHROUGH_SUBCLASS \notin o /\ t.base = "long", "Int">>,
       <<PASSTHROUGH_SUBCLASS \notin o /\ t.base = "list", "List">>,
       <<PASSTHROUGH_SUBCLASS \notin o /\ t.base = "dict", "Dict">>,
       <<t.enum, "Enum">>,
       <<PASSTHROUGH_DATACLASS \notin o /\ f, "Dataclass">>,
       <<SERIALIZE_NUMPY \in o /\ t.numpy = "scalar", "NumpyScalar">>,
       <<SERIALIZE_NUMPY \in o /\ t.numpy = "array", "NumpyArray">>,
       <<TRUE, "Unknown">> >>

FirstMatch(tests) ==
    LET i == CHOOSE i \in 1..Len(tests) :
                 tests[i][1] /\ \A j \in 1..(i - 1) : ~tests[j][1]
    IN  tests[i][2]

\* the call went through the slow path
SlowPathCall ==
    /\ classLog.last.op = "classify"
    /\ TypeObjs[classLog.last.type].exact \notin DOMAIN ExactTag
    /\ \/ TypeObjs[classLog.last.type].exact # "datetime"
       \/ PASSTHROUGH_DATETIME \in classLog.last.opts

\* C24: the slow path gives the tag of the first test that matches, in the
\* order UUID, Tuple, Fragment, Date, Time, str, int, list and dict subclass
\* flags, enum marker, dataclass marker, numpy scalar and array: a str
\* subclass that is an enum is StrSubclass without subclass passthrough and
\* Enum with it, a dict subclass that is a dataclass is Dict without subclass
\* passthrough, and the numpy tags are given only when numpy support is on.
C24_SlowPathFirstMatchWins ==
    SlowPathCall =>
        LET c == classLog.last
            t == TypeObjs[c.type]
        IN  /\ c.tag = FirstMatch(SlowTests(t, c.has_fields, c.opts))
            /\ (t.base = "unicode" /\ t.enum) =>
                 c.tag = IF PASSTHROUGH_SUBCLASS \in c.opts THEN "Enum"
                         ELSE "StrSubclass"
            /\ (t.base = "dict" /\ c.has_fields /\ PASSTHROUGH_SUBCLASS \notin c.opts) =>
                 c.tag = "Dict"
            /\ c.tag \in {"NumpyScalar", "NumpyArray"} => SERIALIZE_NUMPY \in c.opts

C24_Witness ==
    /\ SlowPathCall
    /\ TypeObjs[classLog.last.type].base = "unicode"
    /\ TypeObjs[classLog.last.type].enum
    /\ PASSTHROUGH_SUBCLASS \in classLog.last.opts
    /\ classLog.last.tag = "Enum"


(***************************************************************************)
(* Properties of population (SpecPopulate).                                *)
(***************************************************************************)
\* the last call materialized a document and returned its value
Populated ==
    /\ last.op = "deserialize"
    /\ last.parserCalled
    /\ last.parse.ok
    /\ last.result.kind = "Ok"

\* the places of the trace T where value node m was made, and where it was
\* put into a parent
NewAt(T, m) == {i \in 1..Len(T) : T[i] = <<"new", m>>}
IsInsert(e) == e[1] \in {"store", "setitem"}
InsertsOf(T, m) == {i \in 1..Len(T) : IsInsert(T[i]) /\ T[i][4] = m}
ReturnsAt(T) == {i \in 1..Len(T) : T[i][1] = "return"}
\* the key strings get_unicode_key built in the call, and the dicts a key
\* string was put into
BuiltKeys(T) == {T[i][4] : i \in {j \in 1..Len(T) : T[j][1] = "key" /\ ~T[j][5]}}
DictsOfKey(T, a) == {T[i][2] : i \in {j \in 1..Len(T) : T[j][1] = "setitem" /\ T[j][3] = a}}
ValueNodes(T) == {T[i][2] : i \in {j \in 1..Len(T) : T[j][1] = "new"}}

\* a nested container is made and put into its parent before anything of
\* its own is read, built or put
StoredBeforeChildren(T) ==
    \A j \in 1..Len(T) :
        (T[j][1] \in {"read", "key", "store", "setitem"} /\ T[j][2] # NoFrame
                                                          /\ T[j][2] # 0) =>
            \E i \in 1..(j - 1), k \in 1..(j - 1) :
                /\ i < k
                /\ T[i] = <<"new", T[j][2]>>
                /\ IsInsert(T[k]) /\ T[k][4] = T[j][2]

\* every value made from a node goes into one parent once, the root's to
\* the caller once
ValuesPlacedOnce(T) ==
    \A m \in ValueNodes(T) :
        /\ Cardinality(NewAt(T, m)) = 1
        /\ IF m = 0
           THEN InsertsOf(T, m) = {} /\ Cardinality(ReturnsAt(T)) = 1
           ELSE /\ Cardinality(InsertsOf(T, m)) = 1
                /\ \A k \in InsertsOf(T, m) : \A i \in NewAt(T, m) : i < k

\* the stores into a list fill its slots from the first on
SlotsInOrder(T) ==
    \A j \in 1..Len(T) :
        T[j][1] = "store" =>
            T[j][3] = Cardinality({i \in 1..(j - 1) :
                                     T[i][1] = "store" /\ T[i][2] = T[j][2]})

\* every key handle goes into the dict of its pair with the pair's value
KeysPlaced(T) ==
    \A j \in 1..Len(T) :
        T[j][1] = "key" =>
            \E k \in (j + 1)..Len(T) :
                /\ T[k][1] = "setitem" /\ T[k][2] = T[j][2] /\ T[k][3] = T[j][4]
                /\ T[k][4] = T[j][3] + YYJSON_VAL_SIZE
                /\ \A i \in (j + 1)..(k - 1) : T[i][1] \in {"read", "new"}

\* C25 as stated: every nested container is made and stored into its parent
\* before any of its children is constructed, and every native value the call
\* constructs, key strings included, is inserted into exactly one parent or
\* returned to the caller exactly once.
C25_EveryValueInOneParent ==
    Populated =>
        /\ StoredBeforeChildren(last.trace)
        /\ ValuesPlacedOnce(last.trace)
        /\ \A a \in BuiltKeys(last.trace) : Cardinality(DictsOfKey(last.trace, a)) = 1

\* C25: every nested container is made and stored into its parent (the next
\* list slot, or the dict entry of its key) before any of its children is
\* constructed; every value made from a value node is inserted into exactly
\* one parent, once, or, for the root, returned to the caller once; every key
\* string is inserted into the dict of each pair it was obtained for.
C25_StoredBeforePopulatedPlacedOnce ==
    Populated =>
        /\ StoredBeforeChildren(last.trace)
        /\ ValuesPlacedOnce(last.trace)
        /\ SlotsInOrder(last.trace)
        /\ KeysPlaced(last.trace)

\* a list of two dicts decoded with a cold cache: one key string built, both
\* dicts populated after they were stored
C25_Witness ==
    /\ Populated
    /\ last.parse.doc = 14
    /\ Cardinality(BuiltKeys(last.trace)) = 1
    /\ \E i, j \in 1..Len(last.trace) :
         /\ i < j
         /\ last.trace[i][1] = "store" /\ last.trace[i][3] = 1
         /\ last.trace[j] = <<"enter", last.trace[i][4]>>


\* the nodes the parser writes for the value t, and the nodes of document
\* order at which the cursor of a populate call on t, itself at base, has to
\* stop: the elements of an array, the keys and the values of an object
RECURSIVE NodeCount(_)
RECURSIVE NodeCountAll(_, _)
NodeCount(t) ==
    CASE t[1] = "arr" -> 1 + NodeCountAll(t[2], 1)
      [] t[1] = "obj" -> 1 + NodeCountAll([i \in 1..Len(t[2]) |-> t[2][i][2]], 1) + Len(t[2])
      [] OTHER -> 1
NodeCountAll(ts, i) ==
    IF i > Len(ts) THEN 0 ELSE NodeCount(ts[i]) + NodeCountAll(ts, i + 1)

RECURSIVE ElemPtrs(_, _, _)
ElemPtrs(ts, i, at) ==
    IF i > Len(ts) THEN <<>>
    ELSE <<at>> \o ElemPtrs(ts, i + 1, at + NodeCount(ts[i]) * YYJSON_VAL_SIZE)
RECURSIVE PairPtrs(_, _, _)
PairPtrs(ps, i, at) ==
    IF i > Len(ps) THEN <<>>
    ELSE <<at, at + YYJSON_VAL_SIZE>>
         \o PairPtrs(ps, i + 1, at + (1 + NodeCount(ps[i][2])) * YYJSON_VAL_SIZE)
ChildPtrs(t, base) ==
    IF t[1] = "arr" THEN ElemPtrs(t[2], 1, base + YYJSON_VAL_SIZE)
    ELSE PairPtrs(t[2], 1, base + YYJSON_VAL_SIZE)

\* the containers of the value t, itself at base, that have children: each
\* with its place
RECURSIVE NonEmptyContainers(_, _)
NonEmptyContainers(t, base) ==
    IF t[1] \notin {"arr", "obj"} \/ t[2] = <<>> THEN {}
    ELSE LET vals == IF t[1] = "arr" THEN t[2] ELSE [i \in 1..Len(t[2]) |-> t[2][i][2]]
             ptrs == ChildPtrs(t, base)
             at(i) == IF t[1] = "arr" THEN ptrs[i] ELSE ptrs[2 * i]
         IN  {<<base, t>>}
             \cup UNION {NonEmptyContainers(vals[i], at(i)) : i \in 1..Len(vals)}

\* the nodes the populate call on the container at E read, in the order of
\* the reads
RECURSIVE ReadsOf(_, _, _)
ReadsOf(T, E, i) ==
    IF i > Len(T) THEN <<>>
    ELSE IF T[i][1] = "read" /\ T[i][2] = E THEN <<T[i][3]>> \o ReadsOf(T, E, i + 1)
    ELSE ReadsOf(T, E, i + 1)

\* C26: the populate call on a container node reads each of its direct
\* children (key and value of each pair for an object) exactly once in
\* document order; from a scalar node the cursor moves on by the node size,
\* from a container node by the stride the node stores; no read falls
\* outside the container's own subtree, and each container with children is
\* populated by one call.
C26_ChildrenOnceInDocumentOrder ==
    Populated =>
        LET T == last.trace
            doc == Doc(last.parse.doc)
            tree == JsonTrees[last.parse.doc]
        IN  /\ \A c \in NonEmptyContainers(tree, 0) :
                 LET reads == ReadsOf(T, c[1], 1)
                 IN  /\ reads = ChildPtrs(c[2], c[1])
                     /\ \A k \in 1..Len(reads) :
                          /\ reads[k] > c[1]
                          /\ reads[k] < c[1] + NodeCount(c[2]) * YYJSON_VAL_SIZE
                          /\ reads[k] < c[1] + NodeAt(doc, c[1]).uni
                     /\ \A k \in 1..(Len(reads) - 1) :
                          reads[k + 1] - reads[k] =
                              IF unsafe_yyjson_is_ctn(doc, reads[k])
                              THEN NodeAt(doc, reads[k]).uni
                              ELSE YYJSON_VAL_SIZE
                     /\ Cardinality({i \in 1..Len(T) : T[i] = <<"enter", c[1]>>}) = 1
            /\ \A i \in 1..Len(T) :
                 /\ T[i][1] = "read" => /\ InDoc(doc, T[i][3])
                                        /\ T[i][2] = NoFrame => T[i][3] = 0
                 /\ T[i][1] = "enter" =>
                      \E c \in NonEmptyContainers(tree, 0) : c[1] = T[i][2]

\* an object whose first value is a nested object: the cursor went from the
\* nested object past its subtree to the second key
C26_Witness ==
    /\ Populated
    /\ last.parse.doc = 9
    /\ ReadsOf(last.trace, 0, 1) = <<16, 32, 80, 96>>
    /\ ReadsOf(last.trace, 32, 1) = <<48, 64>>


\* the containers of the value t, itself at base and d containers deep,
\* empty ones included: each with its place, its depth and its length
RECURSIVE ContainerDepths(_, _, _)
ContainerDepths(t, base, d) ==
    IF t[1] \notin {"arr", "obj"} THEN {}
    ELSE LET vals == IF t[1] = "arr" THEN t[2] ELSE [i \in 1..Len(t[2]) |-> t[2][i][2]]
             ptrs == ChildPtrs(t, base)
             at(i) == IF t[1] = "arr" THEN ptrs[i] ELSE ptrs[2 * i]
         IN  {[ptr |-> base, depth |-> d, len |-> Len(t[2])]}
             \cup UNION {ContainerDepths(vals[i], at(i), d + 1) : i \in 1..Len(vals)}

\* the populate calls that have started and not returned after the first i
\* events of T, the innermost last
RECURSIVE FramesAfter(_, _)
FramesAfter(T, i) ==
    IF i = 0 THEN <<>>
    ELSE LET before == FramesAfter(T, i - 1)
         IN  IF T[i][1] = "enter" THEN Append(before, T[i][2])
             ELSE IF T[i][1] = "exit" THEN SubSeq(before, 1, Len(before) - 1)
             ELSE before

\* C27: at every point of a materialize call the populate calls that have
\* not returned are at most as many as the container being populated is deep
\* in the document, siblings add none, and no populate call is made for an
\* empty container.
C27_FramesBoundedByDepth ==
    Populated =>
        LET T == last.trace
            cs == ContainerDepths(JsonTrees[last.parse.doc], 0, 1)
        IN  \A i \in 1..Len(T) :
                LET active == FramesAfter(T, i)
                IN  /\ active # <<>> =>
                         \E c \in cs : /\ c.ptr = active[Len(active)]
                                       /\ c.len > 0
                                       /\ Len(active) <= c.depth
                    /\ Len(active) <= TreeDepth(JsonTrees[last.parse.doc])
                    /\ T[i][1] = "enter" => \E c \in cs : c.ptr = T[i][2] /\ c.len > 0

\* a list of an empty list and an empty dict: one populate call, for the root
C27_Witness ==
    /\ Populated
    /\ last.parse.doc = 7
    /\ Cardinality({i \in 1..Len(last.trace) : last.trace[i][1] = "enter"}) = 1
    /\ Cardinality({i \in 1..Len(last.trace) : last.trace[i][1] = "new"}) = 3


(***************************************************************************)
(* Properties of the flag word under the counters (SpecOpts).              *)
(***************************************************************************)
\* C32: after any copy_for_recursive_call and copy_for_default_call applied
\* to new(flags), the low 16 bits of opts() are flags, and a value of any
\* type is classified under opts() of the derived state as it is under
\* flags: the counters in the upper bits never change a classification.
C32_CountersNeverChangeAClassification ==
    /\ OptFlags(opts(state)) = opts0
    /\ classLog.last.op = "classify" =>
          \A p \in DOMAIN FlagPlacements : \A ty \in TypeIds :
              classLog.last.tags[p][ty] = classLog.last.ref[p][ty]

\* values classified under a state whose default counter has wrapped into
\* the recursion counter, with flags that decide the tags of a datetime and
\* of a numpy scalar
C32_Witness ==
    /\ classLog.last.op = "classify"
    /\ nDef >= 256
    /\ nRec >= 1
    /\ opts(state) # Word(opts0)
    /\ opts0 = 1023
    /\ classLog.last.tags[1][8] = "Unknown"
    /\ classLog.last.tags[1][20] = "NumpyScalar"
    /\ classLog.last.tags[3][8] = "Datetime"


====
